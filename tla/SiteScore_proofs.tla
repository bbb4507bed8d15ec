-------------------------- MODULE SiteScore_proofs ---------------------------
(***************************************************************************)
(* Proofs about SiteScore, for any number of languages, segments, judges   *)
(* and threads and any set of replies.                                     *)
(***************************************************************************)
EXTENDS SiteScore, FiniteSetTheorems, TLAPS

-------------------------------------------------------------------------------
(* The median *)

(***************************************************************************)
(* The elements of D in ascending order of their values, ties broken by    *)
(* the order of D, stand in the places 1, ..., n: every place is taken,    *)
(* and a later place has no smaller value.                                 *)
(***************************************************************************)
LEMMA Places ==
    ASSUME NEW D \in SUBSET Int, IsFiniteSet(D), NEW f \in [D -> Int]
    PROVE  /\ \A d \in D : Cardinality(UpTo(f, d)) \in 1 .. Cardinality(D)
           /\ \A k \in 1 .. Cardinality(D) : \E d \in D : Cardinality(UpTo(f, d)) = k
           /\ \A d, e \in D : Cardinality(UpTo(f, d)) < Cardinality(UpTo(f, e)) => f[d] <= f[e]
<1> DEFINE n == Cardinality(D)
           place == [d \in D |-> Cardinality(UpTo(f, d))]
<1>1. n \in Nat
  BY FS_CardinalityType
<1>2. ASSUME NEW d \in D
      PROVE  /\ d \in UpTo(f, d) /\ UpTo(f, d) \subseteq D
             /\ IsFiniteSet(UpTo(f, d)) /\ Cardinality(UpTo(f, d)) \in 1 .. n
  <2>1. d \in UpTo(f, d) /\ UpTo(f, d) \subseteq D
    BY DEF UpTo
  <2>2. IsFiniteSet(UpTo(f, d)) /\ Cardinality(UpTo(f, d)) <= n
    BY <2>1, FS_Subset
  <2>3. Cardinality(UpTo(f, d)) \in Nat /\ Cardinality(UpTo(f, d)) # 0
    BY <2>1, <2>2, FS_CardinalityType, FS_EmptySet
  <2> QED
    BY <1>1, <2>1, <2>2, <2>3
\* An element before e is up to e, and so is everything up to it, e excepted.
<1>3. ASSUME NEW d \in D, NEW e \in D, d # e, d \in UpTo(f, e)
      PROVE  Cardinality(UpTo(f, d)) < Cardinality(UpTo(f, e))
  <2>1. /\ f[d] < f[e] \/ (f[d] = f[e] /\ d < e)
        /\ \A x \in D : f[x] \in Int /\ x \in Int
    BY <1>3 DEF UpTo
  <2>2. \A x \in D : x \in UpTo(f, d) => x \in UpTo(f, e) /\ x # e
    BY <2>1 DEF UpTo
  <2>3. UpTo(f, d) \in SUBSET UpTo(f, e) /\ UpTo(f, d) # UpTo(f, e)
    BY <1>2, <2>2
  <2> QED
    BY <1>1, <1>2, <2>3, FS_Subset
<1>4. \A d, e \in D : d # e => d \in UpTo(f, e) \/ e \in UpTo(f, d)
  BY DEF UpTo
<1>5. place \in Injection(D, 1 .. n)
  <2>1. place \in [D -> 1 .. n]
    BY <1>2
  <2>2. \A d, e \in D : place[d] = place[e] => d = e
    BY <1>1, <1>2, <1>3, <1>4
  <2> QED
    BY <2>1, <2>2 DEF Injection, IsInjective
<1>6. place \in Surjection(D, 1 .. n)
  <2>1. IsFiniteSet(1 .. n) /\ Cardinality(1 .. n) = n
    BY <1>1, FS_Interval
  <2> QED
    BY <1>5, <2>1, FS_Injection
<1>7. ASSUME NEW k \in 1 .. n PROVE \E d \in D : Cardinality(UpTo(f, d)) = k
  BY <1>6 DEF Surjection
<1>8. ASSUME NEW d \in D, NEW e \in D, Cardinality(UpTo(f, d)) < Cardinality(UpTo(f, e))
      PROVE  f[d] <= f[e]
  <2>1. d # e /\ e \notin UpTo(f, d)
    BY <1>1, <1>2, <1>3, <1>8
  <2> QED
    BY <2>1 DEF UpTo
<1> QED
  BY <1>2, <1>7, <1>8

(***************************************************************************)
(* How many values are below and above the one in place k, at most; and at *)
(* least, for a larger or smaller value.                                   *)
(***************************************************************************)
Below(f, v) == {x \in DOMAIN f : f[x] < v}
Above(f, v) == {x \in DOMAIN f : f[x] > v}

LEMMA Around ==
    ASSUME NEW D \in SUBSET Int, IsFiniteSet(D), NEW f \in [D -> Int],
           NEW d \in D, NEW k \in Int, k = Cardinality(UpTo(f, d)), NEW v \in Int
    PROVE  /\ Cardinality(Below(f, v)) \in Nat /\ Cardinality(Above(f, v)) \in Nat
           /\ v = f[d] => /\ Cardinality(Below(f, v)) <= k - 1
                          /\ Cardinality(Above(f, v)) <= Cardinality(D) - k
           /\ v > f[d] => Cardinality(Below(f, v)) >= k
           /\ v < f[d] => Cardinality(Above(f, v)) >= Cardinality(D) - k + 1
<1> DEFINE n == Cardinality(D)
           U == UpTo(f, d)
<1>1. /\ n \in Nat /\ U \subseteq D /\ d \in U
      /\ Below(f, v) \subseteq D /\ Above(f, v) \subseteq D
  BY FS_CardinalityType DEF UpTo, Below, Above
<1>2. /\ IsFiniteSet(U) /\ IsFiniteSet(U \ {d}) /\ Cardinality(U \ {d}) = k - 1
      /\ IsFiniteSet(D \ U) /\ Cardinality(D \ U) = n - k
      /\ IsFiniteSet((D \ U) \cup {d}) /\ Cardinality((D \ U) \cup {d}) = n - k + 1
  <2>1. IsFiniteSet(U) /\ D \cap U = U
    BY <1>1, FS_Subset
  <2>2. IsFiniteSet(U \ {d}) /\ Cardinality(U \ {d}) = k - 1
    BY <1>1, <2>1, FS_RemoveElement
  <2>3. IsFiniteSet(D \ U) /\ Cardinality(D \ U) = n - k
    BY <2>1, FS_Difference
  <2>4. /\ IsFiniteSet((D \ U) \cup {d})
        /\ Cardinality((D \ U) \cup {d}) = Cardinality(D \ U) + 1
    BY <1>1, <2>3, FS_AddElement
  <2> QED
    BY <2>1, <2>2, <2>3, <2>4
<1>3. /\ IsFiniteSet(Below(f, v)) /\ Cardinality(Below(f, v)) \in Nat
      /\ IsFiniteSet(Above(f, v)) /\ Cardinality(Above(f, v)) \in Nat
  BY <1>1, FS_Subset, FS_CardinalityType
<1>4. ASSUME v = f[d] PROVE Cardinality(Below(f, v)) <= k - 1 /\ Cardinality(Above(f, v)) <= n - k
  <2>1. \A x \in D : /\ f[x] < v => x \in U \ {d}
                     /\ f[x] > v => x \notin U
    BY <1>4 DEF UpTo
  <2>2. Below(f, v) \in SUBSET (U \ {d}) /\ Above(f, v) \in SUBSET (D \ U)
    BY <2>1 DEF Below, Above
  <2> QED
    BY <1>2, <2>2, FS_Subset
<1>5. ASSUME v > f[d] PROVE Cardinality(Below(f, v)) >= k
  <2>1. \A x \in U : x \in D /\ f[x] < v
    BY <1>5 DEF UpTo
  <2>2. U \in SUBSET Below(f, v)
    BY <2>1 DEF Below
  <2> QED
    BY <1>3, <2>2, FS_Subset
<1>6. ASSUME v < f[d] PROVE Cardinality(Above(f, v)) >= n - k + 1
  <2>1. \A x \in (D \ U) \cup {d} : x \in D /\ f[x] > v
    BY <1>6 DEF UpTo
  <2>2. (D \ U) \cup {d} \in SUBSET Above(f, v)
    BY <2>1 DEF Above
  <2> QED
    BY <1>2, <1>3, <2>2, FS_Subset
<1> QED
  BY <1>3, <1>4, <1>5, <1>6

(***************************************************************************)
(* The median of a list in order is the middle of its order-free medians:  *)
(* the values with at most half of the others on either side.              *)
(***************************************************************************)
THEOREM MedianIsMiddle ==
    ASSUME NEW D \in SUBSET Int, IsFiniteSet(D), D # {}, NEW f \in [D -> Int]
    PROVE  /\ Median(f) = Middle(f)
           /\ (\A d \in D : f[d] >= 0) => Median(f) >= 0
<1> DEFINE n == Cardinality(D)
           lo == IF n % 2 = 1 THEN (n + 1) \div 2 ELSE n \div 2
           hi == n + 1 - lo
           x == Place(f, lo)
           y == Place(f, hi)
<1>1. /\ n \in Nat \ {0} /\ lo \in 1 .. n /\ hi \in 1 .. n /\ lo <= hi
      /\ n % 2 = 1 => lo = hi /\ n = 2 * lo - 1
      /\ n % 2 # 1 => lo = n \div 2 /\ hi = n \div 2 + 1 /\ n = 2 * lo
  <2>1. n \in Nat \ {0}
    BY FS_CardinalityType, FS_EmptySet
  <2> HIDE DEF n
  <2> QED
    BY <2>1
<1>2. /\ x \in D /\ Cardinality(UpTo(f, x)) = lo
      /\ y \in D /\ Cardinality(UpTo(f, y)) = hi
  <2>1. DOMAIN f = D /\ (\E d \in D : Cardinality(UpTo(f, d)) = lo)
                    /\ (\E d \in D : Cardinality(UpTo(f, d)) = hi)
    BY <1>1, Places
  <2> QED
    BY <2>1 DEF Place
<1>3. f[x] \in Int /\ f[y] \in Int /\ f[x] <= f[y]
  <2> HIDE DEF n, lo, hi, x, y
  <2>1. CASE lo = hi
    <3>1. x = y
      BY <2>1 DEF x, y
    <3> QED
      BY <1>2, <3>1
  <2>2. CASE lo < hi
    <3>1. f[x] <= f[y]
      BY <1>2, <2>2, Places
    <3> QED
      BY <1>2, <3>1
  <2> QED
    BY <1>1, <2>1, <2>2
<1> HIDE DEF n, lo, hi, x, y
<1>4. Median(f) = IF n % 2 = 1 THEN f[x] ELSE (f[x] + f[y]) \div 2
  BY <1>1 DEF Median, n, x, y
<1>5. \A d \in D : f[d] \in Medians(f) <=>
          2 * Cardinality(Below(f, f[d])) <= n /\ 2 * Cardinality(Above(f, f[d])) <= n
  BY DEF Medians, Below, Above, n
<1>6. \A v \in Medians(f) : \E d \in D : v = f[d]
  BY DEF Medians
<1>7. f[x] \in Medians(f)
  <2>1. /\ Cardinality(Below(f, f[x])) \in Nat /\ Cardinality(Above(f, f[x])) \in Nat
        /\ Cardinality(Below(f, f[x])) <= lo - 1 /\ Cardinality(Above(f, f[x])) <= n - lo
    BY <1>1, <1>2, <1>3, Around DEF n
  <2> QED
    BY <1>1, <1>2, <1>5, <2>1
<1>8. f[y] \in Medians(f)
  <2>1. /\ Cardinality(Below(f, f[y])) \in Nat /\ Cardinality(Above(f, f[y])) \in Nat
        /\ Cardinality(Below(f, f[y])) <= hi - 1 /\ Cardinality(Above(f, f[y])) <= n - hi
    BY <1>1, <1>2, <1>3, Around DEF n
  <2> QED
    BY <1>1, <1>2, <1>5, <2>1 DEF hi
<1>9. ASSUME NEW v \in Medians(f) PROVE v \in Int /\ f[x] <= v /\ v <= f[y]
  <2>1. v \in Int /\ 2 * Cardinality(Below(f, v)) <= n /\ 2 * Cardinality(Above(f, v)) <= n
    BY <1>5, <1>6
  <2>2. /\ Cardinality(Below(f, v)) \in Nat /\ Cardinality(Above(f, v)) \in Nat
        /\ v > f[y] => Cardinality(Below(f, v)) >= hi
        /\ v < f[x] => Cardinality(Above(f, v)) >= n - lo + 1
    BY <1>1, <1>2, <2>1, Around DEF n
  <2> QED
    BY <1>1, <1>3, <2>1, <2>2 DEF hi
<1>10. Min(Medians(f)) = f[x] /\ Max(Medians(f)) = f[y]
  BY <1>3, <1>7, <1>8, <1>9 DEF Min, Max
<1>11. Median(f) = Middle(f)
  <2>1. n % 2 = 1 => f[x] = f[y]
    BY <1>1 DEF x, y
  <2> QED
    BY <1>3, <1>4, <1>10, <2>1 DEF Middle
<1>12. ASSUME \A d \in D : f[d] >= 0 PROVE Median(f) >= 0
  BY <1>2, <1>3, <1>4, <1>12
<1> QED
  BY <1>11, <1>12
-------------------------------------------------------------------------------
(* The inductive invariant *)

CallStates == {"queued", "running", "done", "raised", "cancelled"}
Phases     == {"first", "translate", "judge", "aborting", "scored", "raised"}

Typed ==
    /\ phase \in Phases
    /\ pc \in [Calls -> CallStates]
    /\ asked \in [Jobs -> Languages \cup {Unknown}]
    /\ end \in [Calls -> {"none", "reply", "failed", "unavailable"}]
    /\ reply = [c \in Calls |-> reply[c]]
    /\ result = [c \in Calls |-> result[c]]

\* A call that has not ended has left nothing.
Untouched(c) ==
    end[c] = "none" /\ reply[c] = <<>> /\ result[c] = NoDict
    /\ (c \in Jobs => asked[c] = Unknown)

\* A translation that has ended left what its reply says, or nothing.
LanguageInv(c) ==
    /\ pc[c] \in {"queued", "running", "cancelled"} => Untouched(c)
    /\ pc[c] = "raised" => end[c] = "none"
    /\ pc[c] = "done" => end[c] # "none"
    /\ end[c] = "unavailable" => c = 1
    /\ reply[c] \in Seq(Items)
    /\ end[c] = "reply"  => result[c] = TextsById(reply[c])
    /\ end[c] # "reply" => result[c] = NoDict

\* A judge call is about its own language, if it asks at all; it then left the scores in
\* its reply, or nothing.
JobInv(c) ==
    LET l == JobLanguage(c)
    IN  /\ pc[c] \in {"queued", "running", "cancelled"} => Untouched(c)
        /\ pc[c] = "raised" => end[c] = "none" /\ ToJudge(l) # {}
        /\ pc[c] = "done" =>
              \/ Untouched(c) /\ ToJudge(l) = {}
              \/ /\ end[c] = "reply" /\ asked[c] = l /\ ToJudge(l) # {}
                 /\ reply[c] \in Seq(Verdicts) /\ result[c] = ScoresById(reply[c], ToJudge(l))
              \/ /\ end[c] = "failed" /\ asked[c] = l /\ ToJudge(l) # {}
                 /\ reply[c] = <<>> /\ result[c] = NoDict

\* The translations are over, or there are none but the first.
Settled ==
    /\ pc[1] = "done"
    /\ IF end[1] = "unavailable" THEN \A l \in 2 .. L : pc[l] = "queued"
       ELSE \A l \in Languages : pc[l] = "done"

NoJob == \A c \in Jobs : pc[c] = "queued"

LanguageRaised == \E l \in Languages : pc[l] = "raised"

PhaseInv ==
    /\ pc[1] \in {"running", "done", "raised"}
    /\ phase = "first" => \A c \in Calls \ {1} : pc[c] = "queued"
    /\ pc[1] = "running" => phase = "first"
    /\ end[1] = "unavailable" => \A l \in 2 .. L : pc[l] = "queued"
    /\ phase = "translate" \/ (phase = "aborting" /\ LanguageRaised) =>
          pc[1] = "done" /\ end[1] # "unavailable" /\ NoJob
    /\ phase \in {"judge", "scored"} \/ (phase = "aborting" /\ ~LanguageRaised) => Settled
    /\ ~NoJob => Settled
    /\ phase = "scored" => \A c \in Jobs : pc[c] = "done"

RowInv == row = IF phase = "scored" THEN Row ELSE NoRow

IInv ==
    /\ Typed
    /\ \A l \in Languages : LanguageInv(l)
    /\ \A c \in Jobs : JobInv(c)
    /\ PhaseInv
    /\ RowInv

-------------------------------------------------------------------------------
(* Calls *)

LEMMA CallKinds ==
    /\ L \in Nat \ {0} /\ L * J \in Nat \ {0}
    /\ 1 \in Languages /\ 2 .. L = Languages \ {1}
    /\ Calls = Languages \cup Jobs /\ Languages \cap Jobs = {}
    /\ Calls \subseteq Int
<1>1. L \in Nat \ {0} /\ J \in Nat \ {0}
  BY SiteScoreAssumption
<1>2. L * J \in Nat \ {0}
  BY <1>1
<1> DEFINE K == L * J
<1>3. K \in Nat \ {0}
  BY <1>2
<1> HIDE DEF K
<1>4. Calls = 1 .. L + K /\ Jobs = L + 1 .. L + K
  BY DEF Calls, Jobs, K
<1> QED
  BY <1>1, <1>2, <1>3, <1>4 DEF Languages

LEMMA JobHasLanguage == ASSUME NEW c \in Jobs PROVE JobLanguage(c) \in Languages
<1> DEFINE x == c - L - 1
           q == x \div J
<1>1. L \in Nat \ {0} /\ J \in Nat \ {0} /\ x \in Int /\ 0 <= x /\ x < L * J
  BY SiteScoreAssumption, CallKinds DEF Jobs
<1> HIDE DEF x
<1>2. q \in Int /\ J * q <= x /\ x < J * (q + 1)
  BY <1>1
<1> HIDE DEF q
<1>3. 0 <= q
  BY <1>1, <1>2
<1>4. q < L
  BY <1>1, <1>2
<1> QED
  BY <1>1, <1>2, <1>3, <1>4 DEF JobLanguage, Languages, q, x

(***************************************************************************)
(* What is to be judged depends on what the translation left.              *)
(***************************************************************************)
LEMMA ToJudgeKept ==
    ASSUME NEW l, result'[l] = result[l]
    PROVE  /\ ToJudge(l)' = ToJudge(l)
           /\ \A s : Passes(l, s)' = Passes(l, s)
  BY DEF ToJudge, Passes

LEMMA NothingToJudge ==
    ASSUME NEW l, result[l] = NoDict
    PROVE  ToJudge(l) = {} /\ \A s : ~Passes(l, s)
  BY DEF ToJudge, Passes, NoDict

(***************************************************************************)
(* A row depends on how the calls ended and on what they returned.         *)
(***************************************************************************)
LEMMA RowKept ==
    ASSUME end' = end, result' = result
    PROVE  Row' = Row
<1>1. \A l, s : Passes(l, s)' = Passes(l, s)
  BY DEF Passes
<1>2. \A l, s : Graded(l, s)' = Graded(l, s)
  BY DEF Graded, Judged, JobLanguage
<1>3. \A l, s : Panel(l, s)' = Panel(l, s)
  BY <1>2 DEF Panel
<1>4. \A l, s : Outcome(l, s)' = Outcome(l, s)
  BY <1>1, <1>3 DEF Outcome
<1>5. (\A l : Errors(l)' = Errors(l)) /\ AllErrors' = AllErrors
  BY <1>4 DEF Errors, AllErrors
<1> QED
  BY <1>4, <1>5 DEF Row
-------------------------------------------------------------------------------
(* Every step keeps the invariant. *)

LEMMA InitInv == Init => IInv
<1> SUFFICES ASSUME Init PROVE IInv
  OBVIOUS
<1> USE CallKinds DEF Init
<1>1. Typed
  BY DEF Typed, Phases, CallStates
<1>2. \A c \in Calls : Untouched(c) /\ pc[c] \in {"queued", "running"}
  BY DEF Untouched, Unknown
<1>3. \A l \in Languages : LanguageInv(l)
  <2>1. \A l \in Languages : reply[l] = <<>> /\ result[l] = NoDict /\ end[l] = "none"
    BY <1>2 DEF Untouched
  <2>2. <<>> \in Seq(Items)
    OBVIOUS
  <2> QED
    BY <1>2, <2>1, <2>2 DEF LanguageInv
<1>4. \A c \in Jobs : JobInv(c)
  BY <1>2 DEF JobInv
<1>5. PhaseInv
  <2>1. pc[1] = "running" /\ \A c \in Calls \ {1} : pc[c] = "queued"
    OBVIOUS
  <2>2. NoJob /\ end[1] = "none"
    BY <2>1 DEF NoJob
  <2> QED
    BY <2>1, <2>2 DEF PhaseInv
<1>6. RowInv
  BY DEF RowInv
<1> QED
  BY <1>1, <1>3, <1>4, <1>5, <1>6 DEF IInv

(***************************************************************************)
(* A step that changes no call's outcome keeps what is said of the calls:  *)
(* a queued call may start or be cancelled, or score_model goes on.        *)
(***************************************************************************)
LEMMA OutcomesKept ==
    ASSUME IInv, phase' \in Phases, UNCHANGED <<asked, reply, end, result>>,
           \/ UNCHANGED pc
           \/ \E c \in Calls, v \in {"running", "cancelled"} :
                 pc[c] = "queued" /\ pc' = [pc EXCEPT ![c] = v]
    PROVE  /\ Typed'
           /\ \A l \in Languages : LanguageInv(l)'
           /\ \A c \in Jobs : JobInv(c)'
<1> USE CallKinds
<1>1. /\ pc' \in [Calls -> CallStates]
      /\ \A c \in Calls :
            \/ pc'[c] = pc[c]
            \/ pc[c] = "queued" /\ pc'[c] \in {"running", "cancelled"}
  BY DEF IInv, Typed, CallStates
<1>2. Typed'
  BY <1>1 DEF IInv, Typed
<1>3. \A c \in Calls : Untouched(c)' <=> Untouched(c)
  BY DEF Untouched
<1>4. ASSUME NEW l \in Languages PROVE LanguageInv(l)'
  BY <1>1, <1>3 DEF IInv, LanguageInv
<1>5. ASSUME NEW c \in Jobs PROVE JobInv(c)'
  <2>1. /\ ToJudge(JobLanguage(c))' = ToJudge(JobLanguage(c))
        /\ JobLanguage(c)' = JobLanguage(c)
    BY ToJudgeKept DEF JobLanguage
  <2>2. JobInv(c)
    BY DEF IInv
  <2> QED
    BY <1>1, <1>3, <2>1, <2>2 DEF JobInv
<1> QED
  BY <1>2, <1>4, <1>5

LEMMA StartInv == ASSUME IInv, NEW c \in Calls, Start(c) PROVE IInv'
<1> USE CallKinds
<1>1. /\ pc[c] = "queued" /\ pc' = [pc EXCEPT ![c] = "running"]
      /\ c \in Batch /\ UNCHANGED <<phase, asked, reply, end, result, row>>
  BY DEF Start
<1>2. phase \in Phases /\ pc \in [Calls -> CallStates]
  BY DEF IInv, Typed
<1>3. Typed' /\ (\A l \in Languages : LanguageInv(l)') /\ \A j \in Jobs : JobInv(j)'
  BY <1>1, <1>2, OutcomesKept
<1>4. \/ /\ c \in 2 .. L /\ NoJob /\ end[1] # "unavailable"
         /\ phase \in {"translate", "aborting"} /\ (phase = "aborting" => LanguageRaised)
      \/ /\ c \in Jobs /\ Settled
         /\ phase \in {"judge", "aborting"} /\ (phase = "aborting" => ~LanguageRaised)
  BY <1>1 DEF Batch, LanguageRaised, IInv, PhaseInv
<1>5. PhaseInv'
  BY <1>1, <1>2, <1>4 DEF IInv, PhaseInv, Settled, NoJob, LanguageRaised
<1>6. RowInv'
  BY <1>1, <1>4 DEF IInv, RowInv
<1> QED
  BY <1>3, <1>5, <1>6 DEF IInv

LEMMA CancelInv == ASSUME IInv, NEW c \in Calls, Cancel(c) PROVE IInv'
<1> USE CallKinds
<1>1. /\ pc[c] = "queued" /\ pc' = [pc EXCEPT ![c] = "cancelled"]
      /\ phase = "aborting" /\ c \in Batch
      /\ UNCHANGED <<phase, asked, reply, end, result, row>>
  BY DEF Cancel
<1>2. phase \in Phases /\ pc \in [Calls -> CallStates]
  BY DEF IInv, Typed
<1>3. Typed' /\ (\A l \in Languages : LanguageInv(l)') /\ \A j \in Jobs : JobInv(j)'
  BY <1>1, <1>2, OutcomesKept
<1>4. \/ c \in 2 .. L /\ NoJob /\ end[1] # "unavailable" /\ LanguageRaised
      \/ c \in Jobs /\ Settled /\ ~LanguageRaised
  BY <1>1 DEF Batch, LanguageRaised, IInv, PhaseInv
<1>5. PhaseInv'
  BY <1>1, <1>2, <1>4 DEF IInv, PhaseInv, Settled, NoJob, LanguageRaised
<1>6. RowInv'
  BY <1>1 DEF IInv, RowInv
<1> QED
  BY <1>3, <1>5, <1>6 DEF IInv

(***************************************************************************)
(* score_model goes on to its next phase.                                  *)
(***************************************************************************)
LEMMA MoveInv ==
    ASSUME IInv, FanOut \/ Unservable \/ FirstRaises \/ Translated \/ MeetException \/ Reraise
    PROVE  IInv'
<1> USE CallKinds
<1>1. UNCHANGED <<local, row>> /\ phase \notin {"scored", "raised"} /\ phase' # "scored"
  BY DEF FanOut, Unservable, FirstRaises, Translated, MeetException, Reraise, To
<1>2. phase' \in Phases
  BY DEF FanOut, Unservable, FirstRaises, Translated, MeetException, Reraise, To, Phases
<1>3. Typed' /\ (\A l \in Languages : LanguageInv(l)') /\ \A j \in Jobs : JobInv(j)'
  BY <1>1, <1>2, OutcomesKept DEF local
<1>4. PhaseInv'
  <2>1. /\ NoJob' = NoJob /\ Settled' = Settled /\ LanguageRaised' = LanguageRaised
        /\ pc' = pc /\ end' = end
    BY <1>1 DEF local, NoJob, Settled, LanguageRaised
  <2>2. CASE FanOut
    BY <2>1, <2>2 DEF FanOut, To, IInv, PhaseInv, NoJob
  <2>3. CASE Unservable
    <3>1. pc[1] = "done"
      BY <2>3 DEF Unservable, IInv, LanguageInv, Untouched, PhaseInv
    <3> QED
      BY <2>1, <2>3, <3>1 DEF Unservable, To, IInv, PhaseInv, Settled
  <2>4. CASE FirstRaises
    BY <2>1, <2>4 DEF FirstRaises, To, IInv, PhaseInv
  <2>5. CASE Translated
    BY <2>1, <2>5 DEF Translated, Batch, To, IInv, PhaseInv, Settled
  <2>6. CASE MeetException
    <3>1. phase = "judge" => ~LanguageRaised
      BY DEF IInv, PhaseInv, Settled, LanguageRaised
    <3>2. phase = "translate" => LanguageRaised
      BY <2>6 DEF MeetException, Batch, LanguageRaised
    <3> QED
      BY <2>1, <2>6, <3>1, <3>2 DEF MeetException, To, IInv, PhaseInv
  <2>7. CASE Reraise
    BY <2>1, <2>7 DEF Reraise, To, IInv, PhaseInv
  <2> QED
    BY <2>2, <2>3, <2>4, <2>5, <2>6, <2>7
<1>5. RowInv'
  BY <1>1 DEF IInv, RowInv
<1> QED
  BY <1>3, <1>4, <1>5 DEF IInv

LEMMA PublishInv == IInv /\ Publish => IInv'
<1> SUFFICES ASSUME IInv, Publish PROVE IInv'
  OBVIOUS
<1>1. /\ UNCHANGED local /\ phase = "judge" /\ phase' = "scored" /\ row' = Row
      /\ \A c \in Jobs : pc[c] = "done"
  BY DEF Publish, Batch
<1>2. Typed' /\ (\A l \in Languages : LanguageInv(l)') /\ \A j \in Jobs : JobInv(j)'
  BY <1>1, OutcomesKept DEF local, Phases
<1>3. PhaseInv'
  BY <1>1 DEF local, IInv, PhaseInv, Settled, NoJob, LanguageRaised
<1>4. RowInv'
  BY <1>1, RowKept DEF local, RowInv
<1> QED
  BY <1>2, <1>3, <1>4 DEF IInv

(***************************************************************************)
(* A call that ends changes nothing but its own entries.                   *)
(***************************************************************************)
LEMMA CallFrame ==
    ASSUME Typed, NEW c \in Calls, Call(c)
    PROVE  /\ pc[c] = "running" /\ pc'[c] \in {"done", "raised"}
           /\ \A d \in Calls \ {c} : /\ pc'[d] = pc[d] /\ end'[d] = end[d]
                                     /\ reply'[d] = reply[d] /\ result'[d] = result[d]
           /\ \A d \in Jobs \ {c} : asked'[d] = asked[d]
           /\ UNCHANGED <<phase, row>>
           /\ Typed'
<1> USE CallKinds DEF Typed, Return, Raise
<1>1. ASSUME NEW e \in {"none", "reply", "failed", "unavailable"}, NEW r, NEW v,
             Return(c, e, r, v), asked' \in [Jobs -> Languages \cup {Unknown}]
      PROVE  Typed'
  BY <1>1 DEF CallStates
<1>2. ASSUME NEW r, Raise(c, r), asked' \in [Jobs -> Languages \cup {Unknown}]
      PROVE  Typed'
  BY <1>2 DEF CallStates
<1>3. CASE Translate(c)
  BY <1>1, <1>3 DEF Translate
<1>4. CASE TranslateFails(c)
  BY <1>1, <1>4 DEF TranslateFails
<1>5. CASE TranslateUnavailable(c)
  BY <1>1, <1>5 DEF TranslateUnavailable
<1>6. CASE TranslateRaises(c)
  BY <1>2, <1>6 DEF TranslateRaises
<1>7. CASE JudgeNothing(c)
  BY <1>1, <1>7 DEF JudgeNothing
<1>8. ASSUME Request(c)
      PROVE  /\ asked' \in [Jobs -> Languages \cup {Unknown}]
             /\ \A d \in Jobs \ {c} : asked'[d] = asked[d]
  BY <1>8, JobHasLanguage DEF Request
<1>9. CASE Judge(c)
  <2>1. PICK vs \in JudgeReplies :
           \/ Raise(c, vs)
           \/ Return(c, "reply", vs, ScoresById(vs, ToJudge(JobLanguage(c))))
    BY <1>9 DEF Judge
  <2>2. Request(c)
    BY <1>9 DEF Judge
  <2> QED
    BY <1>1, <1>2, <1>8, <2>1, <2>2
<1>10. CASE JudgeFails(c)
  BY <1>1, <1>8, <1>10 DEF JudgeFails
<1> QED
  BY <1>3, <1>4, <1>5, <1>6, <1>7, <1>9, <1>10 DEF Call

(***************************************************************************)
(* A translation leaves what its reply says, a judge call the scores for   *)
(* its own language.                                                       *)
(***************************************************************************)
LEMMA TranslationLeaves ==
    ASSUME IInv, NEW c \in Languages, Call(c) PROVE LanguageInv(c)'
<1> USE CallKinds
<1>1. /\ c \in DOMAIN pc /\ c \in DOMAIN end /\ c \in DOMAIN reply /\ c \in DOMAIN result
      /\ pc[c] = "running" /\ Untouched(c)
  BY CallFrame DEF IInv, Typed, LanguageInv
<1>2. <<>> \in Seq(Items) /\ TranslatorReplies \subseteq Seq(Items)
  BY SiteScoreAssumption
<1>3. CASE Translate(c)
  BY <1>1, <1>2, <1>3 DEF Translate, Return, LanguageInv
<1>4. CASE TranslateFails(c)
  BY <1>1, <1>2, <1>4 DEF TranslateFails, Return, LanguageInv
<1>5. CASE TranslateUnavailable(c)
  BY <1>1, <1>2, <1>5 DEF TranslateUnavailable, Return, LanguageInv
<1>6. CASE TranslateRaises(c)
  BY <1>1, <1>2, <1>6 DEF TranslateRaises, Raise, LanguageInv, Untouched
<1> QED
  BY <1>3, <1>4, <1>5, <1>6 DEF Call, JudgeNothing, Judge, JudgeFails, Request

LEMMA JudgementLeaves ==
    ASSUME IInv, NEW c \in Jobs, Call(c)
    PROVE  JobInv(c)' /\ \A l \in Languages : result'[l] = result[l]
<1> DEFINE l == JobLanguage(c)
<1> USE CallKinds
<1>1. /\ c \in DOMAIN pc /\ c \in DOMAIN end /\ c \in DOMAIN reply /\ c \in DOMAIN result
      /\ c \in DOMAIN asked /\ pc[c] = "running" /\ Untouched(c)
      /\ \A d \in Calls \ {c} : result'[d] = result[d]
  <2>1. Typed /\ JobInv(c)
    BY DEF IInv
  <2>2. pc[c] = "running" /\ \A d \in Calls \ {c} : result'[d] = result[d]
    BY <2>1, CallFrame
  <2> QED
    BY <2>1, <2>2 DEF Typed, JobInv
<1>2. l \in Languages /\ l # c /\ JobLanguage(c)' = l
  BY JobHasLanguage DEF JobLanguage
<1>3. ToJudge(l)' = ToJudge(l)
  BY <1>1, <1>2, ToJudgeKept
<1>4. JudgeReplies \subseteq Seq(Verdicts)
  BY SiteScoreAssumption
<1> HIDE DEF l
<1>5. CASE JudgeNothing(c)
  BY <1>1, <1>2, <1>3, <1>5 DEF JudgeNothing, Return, JobInv, Untouched, l
<1>6. CASE JudgeFails(c)
  BY <1>1, <1>2, <1>3, <1>6 DEF JudgeFails, Request, Return, JobInv, Untouched, l
<1>7. CASE Judge(c)
  <2>1. ToJudge(l) # {} /\ asked'[c] = l
    BY <1>1, <1>7 DEF Judge, Request, l
  <2>2. PICK vs \in JudgeReplies :
           Raise(c, vs) \/ Return(c, "reply", vs, ScoresById(vs, ToJudge(l)))
    BY <1>7 DEF Judge, l
  <2>3. CASE Raise(c, vs)
    BY <1>1, <1>2, <1>3, <2>1, <2>3 DEF Raise, JobInv, Untouched
  <2>4. CASE Return(c, "reply", vs, ScoresById(vs, ToJudge(l)))
    BY <1>1, <1>2, <1>3, <1>4, <2>1, <2>4 DEF Return, JobInv
  <2> QED
    BY <2>2, <2>3, <2>4
<1>8. JobInv(c)'
  BY <1>5, <1>6, <1>7 DEF Call, Translate, TranslateFails, TranslateUnavailable, TranslateRaises
<1> QED
  BY <1>1, <1>8

LEMMA CallInv == ASSUME IInv, NEW c \in Calls, Call(c) PROVE IInv'
<1> USE CallKinds
<1>1. /\ pc[c] = "running" /\ pc'[c] \in {"done", "raised"}
      /\ \A d \in Calls \ {c} : /\ pc'[d] = pc[d] /\ end'[d] = end[d]
                                /\ reply'[d] = reply[d] /\ result'[d] = result[d]
      /\ \A d \in Jobs \ {c} : asked'[d] = asked[d]
      /\ UNCHANGED <<phase, row>>
      /\ Typed'
  BY CallFrame DEF IInv
<1>2. \A d \in Calls \ {c} : Untouched(d)' <=> Untouched(d)
  BY <1>1 DEF Untouched
<1>3. ASSUME NEW d \in Languages PROVE LanguageInv(d)'
  <2>1. CASE d = c
    BY <2>1, TranslationLeaves
  <2>2. CASE d # c
    <3>1. LanguageInv(d)
      BY DEF IInv
    <3> QED
      BY <1>1, <1>2, <2>2, <3>1 DEF LanguageInv
  <2> QED
    BY <2>1, <2>2
\* While a translation runs, no judge call has begun.
<1>4. c \in Languages => NoJob
  BY <1>1 DEF IInv, PhaseInv, Settled
<1>5. ASSUME NEW d \in Jobs PROVE JobInv(d)'
  <2>1. CASE d = c
    BY <2>1, JudgementLeaves
  <2>2. CASE d # c /\ c \in Languages
    <3>1. pc'[d] = "queued" /\ Untouched(d)'
      BY <1>1, <1>2, <1>4, <2>2 DEF IInv, JobInv, NoJob
    <3> QED
      BY <3>1 DEF JobInv
  <2>3. CASE d # c /\ c \in Jobs
    <3>1. JobLanguage(d) \in Languages /\ JobLanguage(d)' = JobLanguage(d)
      BY JobHasLanguage DEF JobLanguage
    <3>2. ToJudge(JobLanguage(d))' = ToJudge(JobLanguage(d))
      BY <2>3, <3>1, JudgementLeaves, ToJudgeKept
    <3>3. JobInv(d)
      BY DEF IInv
    <3> QED
      BY <1>1, <1>2, <2>3, <3>1, <3>2, <3>3 DEF JobInv
  <2> QED
    BY <2>1, <2>2, <2>3
<1>6. PhaseInv'
  <2>1. CASE c \in Languages
    <3>1. phase \in {"first", "translate", "aborting", "raised"}
      BY <1>1, <2>1 DEF IInv, Typed, Phases, PhaseInv, Settled
    <3>2. phase = "aborting" => LanguageRaised /\ LanguageRaised'
      BY <1>1, <2>1 DEF IInv, PhaseInv, Settled, LanguageRaised
    <3>3. c # 1 => end'[1] = end[1] /\ pc'[1] = pc[1]
      BY <1>1
    <3>4. c = 1 => phase = "first"
      BY <1>1 DEF IInv, PhaseInv
    <3>5. NoJob' /\ (end'[1] = "unavailable" => \A l \in 2 .. L : pc'[l] = "queued")
      <4>1. c # 1 => end[1] # "unavailable"
        BY <1>1, <2>1 DEF IInv, PhaseInv
      <4> QED
        BY <1>1, <1>4, <2>1, <3>3, <3>4, <4>1 DEF NoJob, IInv, PhaseInv
    <3> QED
      BY <1>1, <2>1, <3>1, <3>2, <3>3, <3>4, <3>5 DEF IInv, PhaseInv
  <2>2. CASE c \in Jobs
    <3>1. Settled /\ phase \notin {"first", "translate", "scored"}
      BY <1>1, <2>2 DEF IInv, PhaseInv, NoJob
    <3>2. Settled' /\ LanguageRaised' = LanguageRaised /\ pc'[1] = pc[1] /\ end'[1] = end[1]
      BY <1>1, <2>2, <3>1 DEF Settled, LanguageRaised
    <3>3. phase = "aborting" => ~LanguageRaised
      BY <3>1 DEF Settled, LanguageRaised
    <3> QED
      BY <1>1, <2>2, <3>1, <3>2, <3>3 DEF IInv, PhaseInv
  <2> QED
    BY <2>1, <2>2
<1>7. RowInv'
  <2>1. phase # "scored"
    BY <1>1 DEF IInv, PhaseInv, Settled
  <2> QED
    BY <1>1, <2>1 DEF IInv, RowInv
<1> QED
  BY <1>1, <1>3, <1>5, <1>6, <1>7 DEF IInv

LEMMA StutterInv == IInv /\ UNCHANGED vars => IInv'
<1> SUFFICES ASSUME IInv, UNCHANGED vars PROVE IInv'
  OBVIOUS
<1>1. UNCHANGED <<asked, reply, end, result, pc, phase, row>>
  BY DEF vars, local
<1>2. Typed' /\ (\A l \in Languages : LanguageInv(l)') /\ \A j \in Jobs : JobInv(j)'
  BY <1>1, OutcomesKept DEF IInv, Typed
<1>3. PhaseInv'
  BY <1>1 DEF IInv, PhaseInv, Settled, NoJob, LanguageRaised
<1>4. RowInv'
  BY <1>1, RowKept DEF IInv, RowInv
<1> QED
  BY <1>2, <1>3, <1>4 DEF IInv

(***************************************************************************)
(* score_model's state is always one it should be in: no call leaves       *)
(* anything but what its reply says, judge calls are about translations    *)
(* that are over, and the row is made of what they left.                   *)
(***************************************************************************)
THEOREM Invariance == Spec => []IInv
<1>1. IInv /\ [Next]_vars => IInv'
  BY StartInv, CancelInv, MoveInv, PublishInv, CallInv, StutterInv
  DEF Next, Progress, ScoreModel, Stopped
<1> QED
  BY <1>1, InitInv, PTL DEF Spec
-------------------------------------------------------------------------------
(* What a row says *)

(***************************************************************************)
(* A set of numbers that is not empty has just one smallest element, Min.  *)
(***************************************************************************)
LEMMA Smallest ==
    ASSUME NEW S \in SUBSET Nat, S # {}
    PROVE  /\ Min(S) \in S /\ \A y \in S : Min(S) <= y
           /\ \A x \in S : (\A y \in S : x <= y) => x = Min(S)
<1>1. \E x \in S : \A y \in S : ~ (<<y, x>> \in OpToRel(<, Nat))
  BY WFMin, NatLessThanWellFounded, Zenon
<1>2. \E x \in S : \A y \in S : ~ (y < x)
  BY <1>1, Zenon DEF OpToRel
<1>3. PICK x \in S : \A y \in S : ~(y < x)
  BY <1>2
<1>4. \A y \in S : x <= y
  BY <1>3
<1>5. Min(S) \in S /\ \A y \in S : Min(S) <= y
  BY <1>4 DEF Min
<1>6. \A m, z \in S : (\A y \in S : m <= y) /\ (\A y \in S : z <= y) => z = m
  OBVIOUS
<1> QED
  BY <1>5, <1>6

(***************************************************************************)
(* A text is taken for delivered just where it was.                        *)
(***************************************************************************)
LEMMA PassesIsDelivered ==
    ASSUME IInv, NEW l \in Languages, end[l] = "reply", NEW s
    PROVE  Passes(l, s) <=> Delivered(l, s)
<1> DEFINE K == {k \in DOMAIN reply[l] : reply[l][k].id = s}
<1>1. reply[l] \in Seq(Items) /\ result[l] = TextsById(reply[l])
  BY DEF IInv, LanguageInv
<1>2. /\ IsFiniteSet(K) /\ \A k \in DOMAIN reply[l] : reply[l][k] \in Items
  <2>1. DOMAIN reply[l] = 1 .. Len(reply[l]) /\ Len(reply[l]) \in Nat
    BY <1>1
  <2>2. \A k \in DOMAIN reply[l] : reply[l][k] \in Items
    BY <1>1, <2>1
  <2>3. IsFiniteSet(DOMAIN reply[l]) /\ K \in SUBSET DOMAIN reply[l]
    BY <2>1, FS_Interval
  <2> QED
    BY <2>2, <2>3, FS_Subset
<1>3. /\ s \in DOMAIN result[l] <=> K # {}
      /\ K # {} => result[l][s] = [k \in K |-> reply[l][k].passes]
  BY <1>1 DEF TextsById
<1>4. Passes(l, s) <=> K # {} /\ Cardinality(K) = 1 /\ \A k \in K : reply[l][k].passes
  BY <1>3 DEF Passes
<1>5. ASSUME NEW k \in K
      PROVE  reply[l][k].passes <=> reply[l][k] = [id |-> s, passes |-> TRUE]
  <2>1. reply[l][k] \in Items /\ reply[l][k].id = s
    BY <1>2
  <2>2. ASSUME reply[l][k].passes PROVE reply[l][k] = [id |-> s, passes |-> TRUE]
    BY <2>1, <2>2 DEF Items
  <2> QED
    BY <2>2
<1>6. Delivered(l, s) <=>
          Cardinality(K) = 1 /\ \E k \in K : reply[l][k] = [id |-> s, passes |-> TRUE]
  <2>1. \A k \in DOMAIN reply[l] :
           reply[l][k] = [id |-> s, passes |-> TRUE] => k \in K
    OBVIOUS
  <2> QED
    BY <2>1 DEF Delivered
<1>7. Cardinality(K) = 1 => \E x : K = {x}
  BY <1>2, FS_Singleton
<1> HIDE DEF K
<1> QED
  BY <1>4, <1>5, <1>6, <1>7

(***************************************************************************)
(* The panel of a segment that was delivered has the votes of the judges   *)
(* asked about its language, and no others.                                *)
(***************************************************************************)
LEMMA GradedIsVotes ==
    ASSUME IInv, phase = "scored", NEW l \in Languages, NEW s, s \in ToJudge(l)
    PROVE  /\ Graded(l, s) = Votes(l, s)
           /\ DOMAIN Graded(l, s) \subseteq Jobs
           /\ \A c \in DOMAIN Graded(l, s) : Graded(l, s)[c] \in {0, 2, 6, 8}
<1> DEFINE Spoke(c) == \E k \in DOMAIN reply[c] : Says(c, k, s)
           Said(c) == {k \in DOMAIN reply[c] : Says(c, k, s)}
<1>1. \A c \in Jobs : /\ JobInv(c) /\ pc[c] = "done" /\ JobLanguage(c) \in Languages
                      /\ asked[c] \in {JobLanguage(c), Unknown} /\ Unknown \notin Languages
  BY JobHasLanguage DEF IInv, PhaseInv, JobInv, Untouched, Unknown, Languages
<1>2. ASSUME NEW c \in Jobs, JobLanguage(c) = l, end[c] = "reply"
      PROVE  /\ asked[c] = l /\ reply[c] \in Seq(Verdicts) /\ Said(c) \in SUBSET Nat
             /\ s \in DOMAIN result[c] <=> Spoke(c)
             /\ Spoke(c) => result[c][s] = Grade[reply[c][Min(Said(c))].verdict]
  <2>1. /\ asked[c] = l /\ reply[c] \in Seq(Verdicts)
        /\ result[c] = ScoresById(reply[c], ToJudge(l))
    BY <1>1, <1>2 DEF JobInv, Untouched
  <2>2. {k \in DOMAIN reply[c] : reply[c][k].id = s /\ Valid(reply[c][k], ToJudge(l))} = Said(c)
    BY DEF Valid, Says
  <2>3. Said(c) \in SUBSET Nat
    BY <2>1
  <2> QED
    BY <2>1, <2>2, <2>3 DEF ScoresById
<1>3. ASSUME NEW c \in Jobs, JobLanguage(c) = l, end[c] # "reply"
      PROVE  s \notin DOMAIN result[c] /\ ~Spoke(c)
  <2>1. reply[c] = <<>> /\ result[c] = NoDict
    BY <1>1, <1>3 DEF JobInv, Untouched
  <2> QED
    BY <2>1 DEF NoDict
<1>4. ASSUME NEW c \in Jobs
      PROVE  c \in Judged(l) /\ s \in DOMAIN result[c] <=> asked[c] = l /\ Spoke(c)
  BY <1>1, <1>2, <1>3 DEF Judged
<1>5. ASSUME NEW c \in Jobs, c \in Judged(l), s \in DOMAIN result[c]
      PROVE  /\ result[c][s] = Grade[reply[c][FirstWord(c, s)].verdict]
             /\ result[c][s] \in {0, 2, 6, 8}
  <2>1. /\ reply[c] \in Seq(Verdicts) /\ Said(c) \in SUBSET Nat /\ Said(c) # {}
        /\ result[c][s] = Grade[reply[c][Min(Said(c))].verdict]
    BY <1>2, <1>3, <1>5 DEF Judged
  <2>2. /\ Min(Said(c)) \in Said(c) /\ \A y \in Said(c) : Min(Said(c)) <= y
        /\ \A x \in Said(c) : (\A y \in Said(c) : x <= y) => x = Min(Said(c))
    BY <2>1, Smallest
  <2>3. \A k \in DOMAIN reply[c] :
           Says(c, k, s) /\ (\A h \in 1 .. k - 1 : ~Says(c, h, s)) <=> k = Min(Said(c))
    <3>1. DOMAIN reply[c] = 1 .. Len(reply[c]) /\ Len(reply[c]) \in Nat
      BY <2>1
    <3>2. \A k, h \in Nat : h < k /\ h # 0 <=> h \in 1 .. k - 1
      OBVIOUS
    <3> DEFINE m == Min(Said(c))
    <3>3. m \in Nat \ {0} /\ \A k \in DOMAIN reply[c] : k \in Nat \ {0}
      BY <2>1, <2>2, <3>1
    <3>4. ASSUME NEW k \in DOMAIN reply[c], Says(c, k, s), \A h \in 1 .. k - 1 : ~Says(c, h, s)
          PROVE  k = m
      <4>1. m <= k /\ ~(m < k)
        BY <2>2, <3>2, <3>3, <3>4
      <4> QED
        BY <3>3, <4>1
    <3>5. ASSUME NEW h \in 1 .. m - 1 PROVE ~Says(c, h, s)
      <4>1. h \in Nat /\ h < m
        BY <3>3
      <4>2. h \in DOMAIN reply[c]
        BY <2>2, <3>1, <3>3, <4>1
      <4> QED
        BY <2>2, <3>3, <4>1, <4>2
    <3>6. Says(c, m, s)
      BY <2>2
    <3> QED
      BY <3>4, <3>5, <3>6
  <2>4. FirstWord(c, s) = Min(Said(c))
    BY <2>2, <2>3 DEF FirstWord
  <2>5. reply[c][Min(Said(c))].verdict \in DOMAIN Grade
    BY <2>2 DEF Says
  <2> QED
    BY <2>1, <2>4, <2>5 DEF Grade
<1> HIDE DEF Spoke
<1>6. {c \in Judged(l) : s \in DOMAIN result[c]} = {c \in Jobs : asked[c] = l /\ Spoke(c)}
  BY <1>4 DEF Judged
<1>7. Graded(l, s) = Votes(l, s)
  BY <1>5, <1>6 DEF Graded, Votes, Spoke, Judged
<1> QED
  BY <1>5, <1>7 DEF Graded, Judged

(***************************************************************************)
(* The errors of a language are the segments no panel graded, and every    *)
(* other segment scored what it should.                                    *)
(***************************************************************************)
LEMMA OutcomeIsExpected ==
    ASSUME IInv, phase = "scored", NEW l \in Languages, NEW s \in Segments
    PROVE  /\ Outcome(l, s) = Unjudged <=> s \in Ungraded(l)
           /\ s \notin Ungraded(l) => Outcome(l, s) = Expected(l, s)
<1>1. CASE end[l] # "reply"
  BY <1>1 DEF Outcome, Ungraded
<1>2. CASE end[l] = "reply" /\ ~Passes(l, s)
  <2>1. ~Delivered(l, s)
    BY <1>2, PassesIsDelivered
  <2> QED
    BY <1>2, <2>1 DEF Outcome, Ungraded, Expected, Unjudged
<1>3. CASE end[l] = "reply" /\ Passes(l, s)
  <2> DEFINE G == Graded(l, s)
             D == DOMAIN G
  <2>1. Delivered(l, s) /\ Outcome(l, s) = Panel(l, s)
    BY <1>3, PassesIsDelivered DEF Outcome
  <2>2. G = Votes(l, s) /\ D \subseteq Jobs /\ \A c \in D : G[c] \in {0, 2, 6, 8}
    BY <1>3, GradedIsVotes DEF ToJudge
  <2>3. D \in SUBSET Int /\ IsFiniteSet(D)
    <3>1. L + 1 \in Int /\ L + L * J \in Int
      BY CallKinds
    <3>2. IsFiniteSet(Jobs) /\ Jobs \subseteq Int
      BY <3>1, FS_Interval DEF Jobs
    <3> QED
      BY <2>2, <3>2, FS_Subset
  <2>4. CASE Cardinality(D) < MinJudges
    BY <1>3, <2>1, <2>2, <2>4 DEF Panel, Ungraded
  <2>5. CASE ~(Cardinality(D) < MinJudges)
    <3>1. D # {}
      BY <2>5, FS_EmptySet, SiteScoreAssumption
    <3>2. G \in [D -> Int] /\ \A c \in D : G[c] >= 0
      BY <2>2 DEF Graded
    <3>3. Median(G) = Middle(G) /\ Median(G) >= 0
      BY <2>3, <3>1, <3>2, MedianIsMiddle
    <3>4. Panel(l, s) = Median(G) /\ Median(G) # Unjudged
      BY <2>5, <3>3 DEF Panel, Unjudged
    <3> QED
      BY <1>3, <2>1, <2>2, <2>5, <3>3, <3>4 DEF Ungraded, Expected
  <2> QED
    BY <2>4, <2>5
<1> QED
  BY <1>1, <1>2, <1>3

(***************************************************************************)
(* A row says of every language what its own segments' panels said,        *)
(* however the calls of all languages and judges were interleaved.         *)
(***************************************************************************)
THEOREM ScoresTheorem == Spec => []ScoresAreThePanels
<1>1. ASSUME IInv, phase = "scored", NEW l \in Languages
      PROVE  /\ row.languages[l].errors = Cardinality(Ungraded(l))
             /\ row.languages[l].sum =
                   SumFunction([s \in Segments \ Ungraded(l) |-> Expected(l, s)])
  <2>1. Errors(l) = Ungraded(l)
    BY <1>1, OutcomeIsExpected DEF Errors, Ungraded
  <2>2. [s \in Segments \ Errors(l) |-> Outcome(l, s)]
           = [s \in Segments \ Ungraded(l) |-> Expected(l, s)]
    BY <1>1, <2>1, OutcomeIsExpected
  <2>3. row = Row
    BY <1>1 DEF IInv, RowInv
  <2>4. /\ row.languages[l].errors = Cardinality(Errors(l))
        /\ row.languages[l].sum =
              SumFunction([s \in Segments \ Errors(l) |-> Outcome(l, s)])
    BY <2>3 DEF Row
  <2> QED
    BY <2>1, <2>2, <2>4
<1>2. IInv => ScoresAreThePanels
  BY <1>1 DEF ScoresAreThePanels
<1> QED
  BY <1>2, Invariance, PTL
-------------------------------------------------------------------------------
(* Rows and their exclusion *)

(***************************************************************************)
(* A row has between none and L * N errors; one failed translation makes N *)
(* of them, which is above the ceiling.                                    *)
(***************************************************************************)
LEMMA ErrorCount ==
    /\ Cardinality(AllErrors) \in 0 .. L * N
    /\ \A l \in Languages : end[l] # "reply" => Excluded(Cardinality(AllErrors))
<1> DEFINE a == Cardinality(AllErrors)
<1>1. L \in Nat \ {0} /\ N \in Nat \ {0} /\ ErrorNum \in Nat /\ ErrorDen \in Nat
  BY SiteScoreAssumption
<1>2. /\ IsFiniteSet(Languages) /\ Cardinality(Languages) = L
      /\ IsFiniteSet(Segments) /\ Cardinality(Segments) = N
  BY <1>1, FS_Interval DEF Languages, Segments
<1>3. /\ IsFiniteSet(Languages \X Segments)
      /\ Cardinality(Languages \X Segments) = L * N
  BY <1>2, FS_Product
<1>4. AllErrors \in SUBSET (Languages \X Segments)
  BY DEF AllErrors
<1>5. IsFiniteSet(AllErrors) /\ a \in Nat /\ a <= L * N
  BY <1>3, <1>4, FS_Subset, FS_CardinalityType
<1>6. ASSUME NEW l \in Languages, end[l] # "reply" PROVE Excluded(a)
  <2>1. {l} \X Segments \in SUBSET AllErrors
    BY <1>6 DEF AllErrors, Errors, Outcome
  <2>2. Cardinality({l} \X Segments) = N
    <3>1. IsFiniteSet({l}) /\ Cardinality({l}) = 1
      BY FS_Singleton
    <3>2. Cardinality({l} \X Segments) = 1 * Cardinality(Segments)
      BY <1>2, <3>1, FS_Product
    <3> QED
      BY <1>1, <1>2, <3>2
  <2>3. N <= a
    BY <1>5, <2>1, <2>2, FS_Subset
  <2> HIDE DEF a
  <2>4. L * ErrorNum \in Nat /\ L * ErrorNum < ErrorDen
    BY <1>1, SiteScoreAssumption
  <2>5. (L * ErrorNum) * N < ErrorDen * N
    BY <1>1, <2>4
  <2>6. ErrorDen * N <= ErrorDen * a
    BY <1>1, <1>5, <2>3
  <2>7. a * ErrorDen > ErrorNum * L * N
    BY <1>1, <1>5, <2>4, <2>5, <2>6
  <2> QED
    BY <2>7 DEF Excluded
<1> HIDE DEF a
<1>7. a \in 0 .. L * N
  <2>1. L * N \in Nat
    BY <1>1
  <2> QED
    BY <1>5, <2>1
<1> QED
  BY <1>6, <1>7 DEF a

(***************************************************************************)
(* A model is not ranked on some of the languages only.                    *)
(***************************************************************************)
THEOREM RankedTheorem == Spec => []RankedRowIsTranslated
<1>1. IInv => RankedRowIsTranslated
  <2> SUFFICES ASSUME IInv, phase = "scored", ~row.excluded, NEW l \in Languages
               PROVE  end[l] = "reply"
    BY DEF RankedRowIsTranslated
  <2>1. row = Row
    BY DEF IInv, RowInv
  <2>2. ~Excluded(Cardinality(AllErrors))
    BY <2>1 DEF Row
  <2> QED
    BY <2>2, ErrorCount
<1> QED
  BY <1>1, Invariance, PTL

(***************************************************************************)
(* A model that is not served costs one request, and is not ranked.        *)
(***************************************************************************)
THEOREM UnavailableTheorem == Spec => []UnavailableCostsNothing
<1>1. IInv => UnavailableCostsNothing
  <2> SUFFICES ASSUME IInv, end[1] = "unavailable" PROVE UnavailableCostsNothing
    BY DEF UnavailableCostsNothing
  <2>1. ASSUME NEW l \in Languages, l # 1 PROVE Untouched(l)
    BY <2>1, CallKinds DEF IInv, PhaseInv, LanguageInv
  <2>2. \A l \in Languages : result[l] = NoDict
    BY <2>1 DEF IInv, LanguageInv, Untouched
  <2>3. ASSUME NEW c \in Jobs PROVE Untouched(c)
    <3>1. ToJudge(JobLanguage(c)) = {}
      BY <2>2, JobHasLanguage, NothingToJudge
    <3>2. JobInv(c) /\ pc[c] \in CallStates
      BY CallKinds DEF IInv, Typed
    <3> QED
      BY <3>1, <3>2 DEF JobInv, CallStates
  <2>4. \A c \in Calls \ {1} : end[c] = "none" /\ (c \in Jobs => asked[c] = Unknown)
    BY <2>1, <2>3, CallKinds DEF Untouched
  <2>5. ASSUME phase = "scored" PROVE row.mode = "unavailable" /\ row.excluded
    <3>1. row = Row
      BY <2>5 DEF IInv, RowInv
    <3>2. Excluded(Cardinality(AllErrors))
      BY CallKinds, ErrorCount
    <3> QED
      BY <3>1, <3>2 DEF Row
  <2> QED
    BY <2>4, <2>5 DEF UnavailableCostsNothing
<1> QED
  BY <1>1, Invariance, PTL
-------------------------------------------------------------------------------
(***************************************************************************)
(* The safety half of ImplementsModelScore: every behaviour of the threads *)
(* of score_model is, seen from its caller, a behaviour of ModelScore.     *)
(***************************************************************************)
THEOREM Refinement == Spec => Promise!Spec
<1>1. Init => Promise!Init
  BY DEF Init, Promise!Init, Returned, NoRow, Promise!NoRow
<1>2. IInv /\ [Next]_vars => [Promise!Next]_(Promise!vars)
  <2> SUFFICES ASSUME IInv, [Next]_vars PROVE [Promise!Next]_(Promise!vars)
    OBVIOUS
  <2>1. ASSUME NEW c \in Calls, Call(c) PROVE UNCHANGED Promise!vars
    <3>1. UNCHANGED <<phase, row>>
      BY <2>1, CallFrame DEF IInv
    <3> QED
      BY <3>1 DEF Promise!vars, Returned
  <2>2. ASSUME Publish PROVE Promise!Score
    <3>1. row' = Row /\ phase = "judge" /\ phase' = "scored"
      BY <2>2 DEF Publish
    <3>2. \E m \in {"reasoning_off", "unavailable"}, e \in 0 .. L * N :
             [mode |-> Row.mode, errors |-> Row.errors, excluded |-> Row.excluded]
               = [mode |-> m, errors |-> e, excluded |-> e * ErrorDen > ErrorNum * (L * N)]
      <4>1. ErrorNum * L * N = ErrorNum * (L * N)
        BY SiteScoreAssumption
      <4> QED
        BY <4>1, ErrorCount DEF Row, Excluded
    <3> QED
      BY <3>1, <3>2 DEF Promise!Score, Promise!Rows, Returned
  <2>3. ASSUME FirstRaises \/ Reraise PROVE Promise!Raise
    BY <2>3 DEF FirstRaises, Reraise, To, Promise!Raise, Returned
  <2>4. ASSUME FanOut \/ Unservable \/ Translated \/ MeetException
        PROVE  UNCHANGED Promise!vars
    BY <2>4 DEF FanOut, Unservable, Translated, MeetException, To, Promise!vars, Returned
  <2>5. ASSUME NEW c \in Calls, Start(c) \/ Cancel(c) PROVE UNCHANGED Promise!vars
    BY <2>5 DEF Start, Cancel, Promise!vars, Returned
  <2>6. ASSUME UNCHANGED vars PROVE UNCHANGED Promise!vars
    BY <2>6 DEF vars, Promise!vars, Returned
  <2> QED
    BY <2>1, <2>2, <2>3, <2>4, <2>5, <2>6
    DEF Next, Progress, ScoreModel, Stopped, Promise!Next
<1> QED
  BY <1>1, <1>2, Invariance, PTL DEF Spec, Promise!Spec
===============================================================================
