-------------------------- MODULE ContentScore_proofs --------------------------
(***************************************************************************)
(* Proofs about score of the content-safety board, for any number of items *)
(* and datasets, any labels and any ceiling on errors below every class.   *)
(***************************************************************************)
EXTENDS ContentScore, FiniteSetTheorems, TLAPS

-------------------------------------------------------------------------------
(* Folds *)

LEMMA LeastElement ==
    ASSUME NEW S \in SUBSET Nat, S # {}
    PROVE  \E x \in S : \A y \in S : x <= y
<1>1. \E x \in S : \A y \in S : ~ (<<y, x>> \in OpToRel(<, Nat))
  BY WFMin, NatLessThanWellFounded, Zenon
<1>2. \E x \in S : \A y \in S : ~ (y < x)
  BY <1>1, Zenon DEF OpToRel
<1> QED
  BY <1>2

First(s) == CHOOSE x \in s : TRUE

LEMMA FirstOut ==
    ASSUME NEW s, IsFiniteSet(s), s # {}
    PROVE  /\ First(s) \in s
           /\ IsFiniteSet(s \ {First(s)})
           /\ Cardinality(s) \in Nat /\ Cardinality(s \ {First(s)}) \in Nat
           /\ Cardinality(s) = Cardinality(s \ {First(s)}) + 1
<1>1. First(s) \in s
  BY DEF First
<1>2. IsFiniteSet(s \ {First(s)}) /\ Cardinality(s \ {First(s)}) = Cardinality(s) - 1
  BY <1>1, FS_RemoveElement
<1> QED
  BY <1>1, <1>2, FS_CardinalityType

(***************************************************************************)
(* Subsets of a finite set, taken apart an element at a time: what holds   *)
(* of the empty set, and of a set if it holds of the set without its first *)
(* element, holds of every subset.                                         *)
(***************************************************************************)
LEMMA SubsetInduction ==
    ASSUME NEW S, IsFiniteSet(S), NEW P,
           {} \in P,
           \A s \in SUBSET S : s # {} /\ s \ {First(s)} \in P => s \in P
    PROVE  SUBSET S \subseteq P
<1> DEFINE Sizes == {Cardinality(s) : s \in (SUBSET S) \ P}
<1>1. SUFFICES ASSUME (SUBSET S) \ P # {} PROVE FALSE
  OBVIOUS
<1>2. \A s \in SUBSET S : IsFiniteSet(s) /\ Cardinality(s) \in Nat
  BY FS_Subset, FS_CardinalityType
<1>3. Sizes \in SUBSET Nat /\ Sizes # {}
  BY <1>1, <1>2
<1>4. PICK s \in (SUBSET S) \ P : \A r \in (SUBSET S) \ P : Cardinality(s) <= Cardinality(r)
  <2>1. \E n \in Sizes : \A m \in Sizes : n <= m
    BY <1>3, LeastElement
  <2> QED
    BY <2>1
<1>5. s # {} /\ s \in SUBSET S /\ IsFiniteSet(s)
  BY <1>2, <1>4
<1> HIDE DEF Sizes
<1>7. Cardinality(s \ {First(s)}) < Cardinality(s)
  <2>1. /\ Cardinality(s) \in Nat /\ Cardinality(s \ {First(s)}) \in Nat
        /\ Cardinality(s) = Cardinality(s \ {First(s)}) + 1
    BY <1>5, FirstOut, Zenon
  <2> QED
    BY <2>1
<1>6. s \ {First(s)} \in (SUBSET S) \ P
  BY <1>4, <1>5
<1> QED
  BY <1>2, <1>4, <1>6, <1>7

IsFold(fold, S, base, op) ==
    \A s \in SUBSET S :
        fold[s] = IF s = {} THEN base ELSE op[<<First(s), fold[s \ {First(s)}]>>]

(***************************************************************************)
(* The function by which a fold over the subsets of a finite set is        *)
(* defined exists: it is made of the values for smaller subsets.           *)
(***************************************************************************)
LEMMA FoldExists ==
    ASSUME NEW S, IsFiniteSet(S), NEW T, NEW base \in T, NEW op \in [S \X T -> T]
    PROVE  \E fold \in [SUBSET S -> T] : IsFold(fold, S, base, op)
<1> DEFINE Turn(fold, s) == IF s = {} THEN base ELSE op[<<First(s), fold[s \ {First(s)}]>>]
           UpTo(n) == {s \in SUBSET S : Cardinality(s) <= n}
           Folds(n) == \E fold \in [SUBSET S -> T] : \A s \in UpTo(n) : fold[s] = Turn(fold, s)
           Bad == {n \in Nat : ~Folds(n)}
<1>1. \A s \in SUBSET S : IsFiniteSet(s) /\ Cardinality(s) \in Nat
  BY FS_Subset, FS_CardinalityType
<1>2. \A fold \in [SUBSET S -> T] : \A s \in SUBSET S : Turn(fold, s) \in T
  <2>1. ASSUME NEW fold \in [SUBSET S -> T], NEW s \in SUBSET S, s # {} PROVE Turn(fold, s) \in T
    <3>1. First(s) \in S /\ s \ {First(s)} \in SUBSET S
      BY <1>1, <2>1, FirstOut
    <3>2. fold[s \ {First(s)}] \in T
      BY <3>1
    <3> QED
      BY <2>1, <3>1, <3>2
  <2> QED
    BY <2>1
<1>3. ASSUME NEW n \in Nat, NEW fold \in [SUBSET S -> T],
             \A s \in UpTo(n) : fold[s] = Turn(fold, s)
      PROVE  Folds(n + 1)
  <2> DEFINE next_ == [s \in SUBSET S |-> Turn(fold, s)]
  <2>1. next_ \in [SUBSET S -> T]
    BY <1>2
  <2>2. ASSUME NEW s \in UpTo(n + 1), s # {} PROVE next_[s \ {First(s)}] = fold[s \ {First(s)}]
    <3>1. s \ {First(s)} \in UpTo(n)
      BY <1>1, <2>2, FirstOut
    <3> QED
      BY <1>3, <3>1
  <2>3. \A s \in UpTo(n + 1) : next_[s] = Turn(next_, s)
    BY <2>2
  <2> QED
    BY <2>1, <2>3
<1>4. Folds(0)
  <2>1. \A s \in UpTo(0) : s = {}
    BY <1>1, FS_EmptySet
  <2>2. [s \in SUBSET S |-> base] \in [SUBSET S -> T]
    OBVIOUS
  <2> QED
    BY <2>1, <2>2
<1>5. Bad = {}
  <2>1. SUFFICES ASSUME Bad # {} PROVE FALSE
    OBVIOUS
  <2>2. PICK n \in Bad : \A m \in Bad : n <= m
    BY <2>1, LeastElement
  <2> HIDE DEF Folds
  <2>3. n \in Nat \ {0} /\ ~Folds(n)
    BY <1>4, <2>2
  <2>4. n - 1 \in Nat /\ n - 1 \notin Bad /\ (n - 1) + 1 = n
    BY <2>2, <2>3
  <2>5. Folds(n - 1)
    BY <2>4
  <2>6. \A m \in Nat : Folds(m) => Folds(m + 1)
    BY <1>3 DEF Folds
  <2> QED
    BY <2>3, <2>4, <2>5, <2>6
<1>6. UpTo(Cardinality(S)) = SUBSET S
  <2>1. \A s \in SUBSET S : Cardinality(s) <= Cardinality(S)
    BY FS_Subset
  <2> QED
    BY <2>1
<1>7. Folds(Cardinality(S))
  BY <1>1, <1>5
<1> QED
  BY <1>6, <1>7 DEF IsFold
-------------------------------------------------------------------------------
(* The tally *)

Tallied(d, k) == {i \in 1 .. next - 1 : DatasetOf[i] = d /\ Counter(i, verdicts[i]) = k}

IInv ==
    /\ next \in 1 .. N + 1
    /\ verdicts \in [1 .. next - 1 -> Verdicts]
    /\ counts = [d \in Datasets |-> [k \in Counters |-> Cardinality(Tallied(d, k))]]
    /\ result # NoResult => next = N + 1 /\ result = Row

LEMMA CounterType ==
    ASSUME NEW i, NEW v \in Verdicts PROVE Counter(i, v) \in Counters
  BY DEF Counter, Counters, Verdicts

LEMMA RowKept == UNCHANGED counts => Row' = Row
  BY DEF Row, Errors, Accuracies, Excluded, FoldSet, MapThenFoldSet

LEMMA TallyInv == ASSUME IInv, NEW v \in Verdicts, Tally(v) PROVE IInv'
<1> DEFINE k0 == Counter(next, v)
           d0 == DatasetOf[next]
<1>1. next \in 1 .. N /\ next' = next + 1 /\ N \in Nat
  BY ContentScoreAssumption DEF IInv, Tally
<1>2. d0 \in Datasets /\ k0 \in Counters
  BY <1>1, CounterType, ContentScoreAssumption DEF Items
<1>3. verdicts' = [i \in 1 .. next |-> IF i = next THEN v ELSE verdicts[i]]
  BY DEF Tally
<1>4. verdicts' \in [1 .. next' - 1 -> Verdicts]
  BY <1>1, <1>3 DEF IInv
<1>5. ASSUME NEW d \in Datasets, NEW k \in Counters
      PROVE  Cardinality(Tallied(d, k)')
                = IF d = d0 /\ k = k0 THEN Cardinality(Tallied(d, k)) + 1
                  ELSE Cardinality(Tallied(d, k))
  <2>1. \A i \in 1 .. next - 1 : verdicts'[i] = verdicts[i]
    BY <1>1, <1>3
  <2>2. verdicts'[next] = v
    BY <1>1, <1>3
  <2>3. Tallied(d, k)' = IF d = d0 /\ k = k0 THEN Tallied(d, k) \cup {next} ELSE Tallied(d, k)
    BY <1>1, <2>1, <2>2 DEF Tallied, Counter
  <2>4. next \notin Tallied(d, k) /\ IsFiniteSet(Tallied(d, k))
    <3>1. IsFiniteSet(1 .. next - 1) /\ Tallied(d, k) \subseteq 1 .. next - 1
      BY <1>1, FS_Interval DEF Tallied
    <3> QED
      BY <1>1, <3>1, FS_Subset DEF Tallied
  <2>5. Cardinality(Tallied(d, k) \cup {next}) = Cardinality(Tallied(d, k)) + 1
    BY <2>4, FS_AddElement
  <2> QED
    BY <2>3, <2>5
<1>6. counts' = [d \in Datasets |-> [k \in Counters |-> Cardinality(Tallied(d, k)')]]
  <2>1. counts' = [counts EXCEPT ![d0][k0] = @ + 1]
    BY DEF Tally
  <2> QED
    BY <1>2, <1>5, <2>1 DEF IInv
<1>7. result' = NoResult
  BY <1>1 DEF IInv, Tally
<1> QED
  BY <1>1, <1>4, <1>6, <1>7 DEF IInv
\* The inductive invariant: the counters are the numbers of items with each verdict so far.
THEOREM Invariance == Spec => []IInv
<1>1. Init => IInv
  <2>1. SUFFICES ASSUME Init PROVE IInv
    OBVIOUS
  <2>2. next = 1 /\ 1 .. next - 1 = {}
    BY <2>1 DEF Init
  <2>3. \A d, k : Tallied(d, k) = {}
    BY <2>2 DEF Tallied
  <2>4. counts = [d \in Datasets |-> [k \in Counters |-> Cardinality(Tallied(d, k))]]
    BY <2>1, <2>3, FS_EmptySet DEF Init
  <2>5. verdicts \in [1 .. next - 1 -> Verdicts]
    BY <2>1, <2>2 DEF Init
  <2> QED
    BY <2>1, <2>2, <2>4, <2>5, ContentScoreAssumption DEF Init, IInv
<1>2. IInv /\ [Next]_vars => IInv'
  <2>1. SUFFICES ASSUME IInv, [Next]_vars PROVE IInv'
    OBVIOUS
  <2>2. ASSUME NEW v \in Verdicts, Tally(v) PROVE IInv'
    BY <2>1, <2>2, TallyInv
  <2>3. CASE Finish
    <3>1. Row' = Row /\ \A d, k : Tallied(d, k)' = Tallied(d, k)
      BY <2>3, RowKept DEF Finish, Tallied
    <3> QED
      BY <2>1, <2>3, <3>1 DEF IInv, Finish
  <2>4. CASE UNCHANGED vars
    <3>1. Row' = Row /\ \A d, k : Tallied(d, k)' = Tallied(d, k)
      BY <2>4, RowKept DEF vars, Tallied
    <3> QED
      BY <2>1, <2>4, <3>1 DEF IInv, vars
  <2> QED
    BY <2>1, <2>2, <2>3, <2>4 DEF Next
<1> QED
  BY <1>1, <1>2, PTL DEF Spec
-------------------------------------------------------------------------------
(* The sums *)

LEMMA DatasetsFinite == IsFiniteSet(Datasets) /\ IsFiniteSet(Items)
<1>1. IsFiniteSet(Items)
  BY ContentScoreAssumption, FS_Interval DEF Items
<1>2. \A d \in Datasets : \E i \in Items : DatasetOf[i] = d
  <2>1. SUFFICES ASSUME NEW d \in Datasets PROVE Class(d, Unsafe) # {}
    BY ContentScoreAssumption DEF Class
  <2>2. Cardinality(Class(d, Unsafe)) * ErrorDen > ErrorNum * N
    BY ContentScoreAssumption
  <2>3. ErrorNum * N >= 0
    BY ContentScoreAssumption
  <2>4. Cardinality({}) * ErrorDen = 0
    BY ContentScoreAssumption, FS_EmptySet
  <2> QED
    BY <2>2, <2>3, <2>4, ContentScoreAssumption
<1>3. DatasetOf \in Surjection(Items, Datasets)
  BY <1>2, ContentScoreAssumption DEF Surjection
<1> QED
  BY <1>1, <1>3, FS_Surjection

(***************************************************************************)
(* sum(c["errors"] for c in ...) is at least each dataset's errors.        *)
(***************************************************************************)
LEMMA ErrorsAddUp ==
    ASSUME \A d \in Datasets : counts[d].errors \in Nat
    PROVE  Errors \in Nat /\ \A d \in Datasets : counts[d].errors <= Errors
<1> DEFINE Sums(fold) ==
               fold = [s \in SUBSET Datasets |->
                          IF s = {} THEN 0
                          ELSE LET x == CHOOSE x \in s : TRUE
                               IN fold[s \ {x}] + counts[x].errors]
           fold == CHOOSE fold : Sums(fold)
<1>1. Errors = fold[Datasets]
  BY DEF Errors, FoldSet, MapThenFoldSet
<1>2. Sums(fold)
  <2> DEFINE op == [p \in Datasets \X Nat |-> p[2] + counts[p[1]].errors]
  <2>1. op \in [Datasets \X Nat -> Nat]
    OBVIOUS
  <2>2. PICK g \in [SUBSET Datasets -> Nat] : IsFold(g, Datasets, 0, op)
    <3> HIDE DEF op
    <3> QED
      BY <2>1, DatasetsFinite, FoldExists
  <2>3. \A s \in SUBSET Datasets : s # {} => First(s) \in Datasets /\ g[s \ {First(s)}] \in Nat
    BY DEF First
  <2>4. \A s \in SUBSET Datasets :
            g[s] = IF s = {} THEN 0 ELSE g[s \ {First(s)}] + counts[First(s)].errors
    BY <2>2, <2>3 DEF IsFold
  <2>5. Sums(g)
    BY <2>4 DEF First
  <2> QED
    BY <2>5
<1>3. fold[{}] = 0 /\ \A s \in SUBSET Datasets :
                         s # {} => fold[s] = fold[s \ {First(s)}] + counts[First(s)].errors
  BY <1>2 DEF First
<1> DEFINE P == {s \in SUBSET Datasets :
                    fold[s] \in Nat /\ \A d \in s : counts[d].errors <= fold[s]}
<1> HIDE DEF fold, Sums
<1>4. ASSUME NEW s \in SUBSET Datasets, s # {}, s \ {First(s)} \in P PROVE s \in P
  <2>1. First(s) \in Datasets /\ counts[First(s)].errors \in Nat
    BY <1>4 DEF First
  <2>2. fold[s \ {First(s)}] \in Nat /\ fold[s] = fold[s \ {First(s)}] + counts[First(s)].errors
    BY <1>3, <1>4
  <2>3. \A d \in s : d = First(s) \/ counts[d].errors <= fold[s \ {First(s)}]
    BY <1>4
  <2>4. \A d \in s : counts[d].errors \in Nat
    BY <1>4
  <2>5. \A d \in s : counts[d].errors <= fold[s]
    BY <2>1, <2>2, <2>3, <2>4
  <2>6. fold[s] \in Nat
    BY <2>1, <2>2
  <2> QED
    BY <2>5, <2>6
<1>5. {} \in P
  BY <1>3
<1>6. SUBSET Datasets \subseteq P
  <2> HIDE DEF P
  <2> QED
    BY <1>4, <1>5, DatasetsFinite, SubsetInduction
<1> QED
  BY <1>1, <1>6

LEMMA Products ==
    ASSUME NEW a \in Nat, NEW b \in Nat
    PROVE  a * b \in Nat /\ (a * b = 0 <=> a = 0 \/ b = 0)
  OBVIOUS

(***************************************************************************)
(* (recall + 1 - fpr) / 2 of one dataset.                                  *)
(***************************************************************************)
LEMMA AccuracyBounds ==
    ASSUME NEW c, c.tp \in Nat, c.fn \in Nat, c.fp \in Nat, c.tn \in Nat
    PROVE  LET num == BalancedAccuracy(c)[1]
               den == BalancedAccuracy(c)[2]
           IN /\ BalancedAccuracy(c) = <<num, den>>
              /\ num \in Nat /\ den \in Nat \ {0} /\ num <= den
              /\ c.tp + c.fn > 0 /\ c.fp + c.tn > 0 =>
                    /\ num = den <=> c.fn = 0 /\ c.fp = 0
                    /\ c.fn = 0 /\ c.tn = 0 => 2 * num = den
<1> DEFINE unsafe == AtLeastOne(c.tp + c.fn)
           safe   == AtLeastOne(c.fp + c.tn)
           num == c.tp * safe + (safe - c.fp) * unsafe
           den == 2 * unsafe * safe
<1>1. BalancedAccuracy(c) = <<num, den>>
  BY DEF BalancedAccuracy
<1>2. /\ unsafe \in Nat \ {0} /\ c.tp <= unsafe
      /\ safe \in Nat \ {0} /\ c.fp <= safe
      /\ c.tp + c.fn > 0 => unsafe = c.tp + c.fn
      /\ c.fp + c.tn > 0 => safe = c.fp + c.tn
  BY DEF AtLeastOne
<1> HIDE DEF unsafe, safe
<1>3. /\ unsafe * safe \in Nat \ {0}
      /\ c.tp * safe \in Nat /\ c.fp * unsafe \in Nat
      /\ (unsafe - c.tp) * safe \in Nat /\ (safe - c.fp) * unsafe \in Nat
  <2>1. unsafe \in Nat /\ safe \in Nat /\ unsafe - c.tp \in Nat /\ safe - c.fp \in Nat
    BY <1>2
  <2>2. unsafe * safe \in Nat /\ unsafe * safe # 0
    BY <1>2, <2>1, Products
  <2> QED
    BY <2>1, <2>2, Products
<1>4. /\ (unsafe - c.tp) * safe = unsafe * safe - c.tp * safe
      /\ (safe - c.fp) * unsafe = unsafe * safe - c.fp * unsafe
      /\ den = 2 * (unsafe * safe)
  BY <1>2
<1>5. num \in Nat /\ den \in Nat \ {0} /\ num <= den
  BY <1>3, <1>4
<1>6. (unsafe - c.tp) * safe = 0 <=> unsafe = c.tp
  BY <1>2
<1>7. c.fp * unsafe = 0 <=> c.fp = 0
  BY <1>2
<1>8. num = den <=> unsafe = c.tp /\ c.fp = 0
  BY <1>3, <1>4, <1>6, <1>7
<1>9. unsafe = c.tp /\ safe = c.fp => 2 * num = den
  BY <1>2, <1>3, <1>4
<1> QED
  BY <1>1, <1>2, <1>5, <1>8, <1>9
Grows(a, b, k, num, den) ==
    /\ a * den + num * b \in Nat /\ b * den \in Nat \ {0}
    /\ a * den + num * b <= (k + 1) * (b * den)
    /\ a * den + num * b = (k + 1) * (b * den) <=> a = k * b /\ num = den
    /\ 2 * a = k * b /\ 2 * num = den => 2 * (a * den + num * b) = (k + 1) * (b * den)

(***************************************************************************)
(* One more ratio is added to a sum of ratios: the sum of k + 1 ratios of  *)
(* at most 1 is at most k + 1, and just that if each of them is 1.         *)
(***************************************************************************)
LEMMA OneMore ==
    ASSUME NEW a \in Nat, NEW b \in Nat \ {0}, NEW k \in Nat, a <= k * b,
           NEW num \in Nat, NEW den \in Nat \ {0}, num <= den
    PROVE  Grows(a, b, k, num, den)
<1> DEFINE x == k * b
<1>1. x \in Nat
  BY Products
<1>2. (k + 1) * (b * den) = x * den + b * den
  OBVIOUS
<1>3. /\ (x - a) * den \in Nat /\ ((x - a) * den = 0 <=> x = a)
      /\ (den - num) * b \in Nat /\ ((den - num) * b = 0 <=> den = num)
  <2>1. x - a \in Nat /\ den - num \in Nat /\ den \in Nat /\ b \in Nat
    BY <1>1
  <2>2. (x - a) * den \in Nat /\ ((x - a) * den = 0 <=> x - a = 0 \/ den = 0)
    BY <2>1, Products
  <2>3. (den - num) * b \in Nat /\ ((den - num) * b = 0 <=> den - num = 0 \/ b = 0)
    BY <2>1, Products
  <2> QED
    BY <1>1, <2>2, <2>3
<1>4. a * den \in Nat /\ num * b \in Nat /\ b * den \in Nat \ {0} /\ x * den \in Nat
  BY <1>1, Products
<1> HIDE DEF x
<1>5. (x - a) * den = x * den - a * den /\ (den - num) * b = b * den - num * b
  BY <1>1
<1>6. ASSUME 2 * a = x, 2 * num = den PROVE 2 * (a * den + num * b) = x * den + b * den
  <2>1. x * den = 2 * (a * den) /\ b * den = 2 * (num * b)
    BY <1>6
  <2> QED
    BY <1>4, <2>1
<1> QED
  BY <1>2, <1>3, <1>4, <1>5, <1>6 DEF x, Grows

Sum(fold, s) ==
    LET a == fold[s][1]
        b == fold[s][2]
        k == Cardinality(s)
    IN /\ fold[s] = <<a, b>>
       /\ a \in Nat /\ b \in Nat \ {0} /\ k \in Nat /\ a <= k * b
       /\ a = k * b <=> \A d \in s : BalancedAccuracy(counts[d])[1] = BalancedAccuracy(counts[d])[2]
       /\ (\A d \in s : 2 * BalancedAccuracy(counts[d])[1] = BalancedAccuracy(counts[d])[2])
             => 2 * a = k * b

(***************************************************************************)
(* sum(balanced): between 0 and the number of datasets.                    *)
(***************************************************************************)
LEMMA AccuraciesAddUp ==
    ASSUME \A d \in Datasets : /\ counts[d].tp \in Nat /\ counts[d].fn \in Nat
                               /\ counts[d].fp \in Nat /\ counts[d].tn \in Nat
    PROVE  LET a == Accuracies[1]
               b == Accuracies[2]
               k == Cardinality(Datasets)
           IN /\ a \in Nat /\ b \in Nat \ {0} /\ k \in Nat /\ a <= k * b
              /\ a = k * b <=> \A d \in Datasets :
                    BalancedAccuracy(counts[d])[1] = BalancedAccuracy(counts[d])[2]
              /\ (\A d \in Datasets :
                    2 * BalancedAccuracy(counts[d])[1] = BalancedAccuracy(counts[d])[2])
                    => 2 * a = k * b
<1> DEFINE BA(d) == BalancedAccuracy(counts[d])
           Sums(fold) ==
               fold = [s \in SUBSET Datasets |->
                          IF s = {} THEN <<0, 1>>
                          ELSE LET x == CHOOSE x \in s : TRUE
                               IN Plus(fold[s \ {x}], BalancedAccuracy(counts[x]))]
           fold == CHOOSE fold : Sums(fold)
           T == Nat \X (Nat \ {0})
<1>1. Accuracies = fold[Datasets]
  BY DEF Accuracies, FoldSet, MapThenFoldSet
<1>2. \A d \in Datasets :
          BA(d) = <<BA(d)[1], BA(d)[2]>> /\ BA(d)[1] \in Nat /\ BA(d)[2] \in Nat \ {0}
             /\ BA(d)[1] <= BA(d)[2]
  BY AccuracyBounds
<1> HIDE DEF BA
<1>3. ASSUME NEW p \in T, NEW d \in Datasets PROVE Plus(p, BA(d)) \in T
  <2>1. p[1] \in Nat /\ p[2] \in Nat \ {0} /\ BA(d)[1] \in Nat /\ BA(d)[2] \in Nat \ {0}
    BY <1>2
  <2>2. p[1] * BA(d)[2] \in Nat /\ BA(d)[1] * p[2] \in Nat /\ p[2] * BA(d)[2] \in Nat \ {0}
    BY <2>1, Products
  <2> QED
    BY <2>2 DEF Plus
<1>4. Sums(fold)
  <2> DEFINE op == [p \in Datasets \X T |-> Plus(p[2], BA(p[1]))]
  <2>1. op \in [Datasets \X T -> T]
    <3> HIDE DEF T
    <3> QED
      BY <1>3
  <2>2. <<0, 1>> \in T
    OBVIOUS
  <2>3. PICK g \in [SUBSET Datasets -> T] : IsFold(g, Datasets, <<0, 1>>, op)
    <3> HIDE DEF op, T
    <3> QED
      BY <2>1, <2>2, DatasetsFinite, FoldExists
  <2> HIDE DEF T
  <2>4. \A s \in SUBSET Datasets : s # {} => First(s) \in Datasets /\ g[s \ {First(s)}] \in T
    BY DEF First
  <2>5. \A s \in SUBSET Datasets :
            g[s] = IF s = {} THEN <<0, 1>> ELSE Plus(g[s \ {First(s)}], BA(First(s)))
    BY <2>3, <2>4 DEF IsFold
  <2>6. Sums(g)
    BY <2>5 DEF First, BA
  <2> QED
    BY <2>6
<1>5. fold[{}] = <<0, 1>> /\ \A s \in SUBSET Datasets :
                                s # {} => fold[s] = Plus(fold[s \ {First(s)}], BA(First(s)))
  BY <1>4 DEF First, BA
<1> HIDE DEF fold, Sums
<1> DEFINE P == {s \in SUBSET Datasets : Sum(fold, s)}
<1>6. ASSUME NEW s \in SUBSET Datasets, s # {}, s \ {First(s)} \in P PROVE s \in P
  <2> DEFINE r == s \ {First(s)}
             a == fold[r][1]
             b == fold[r][2]
             k == Cardinality(r)
             num == BA(First(s))[1]
             den == BA(First(s))[2]
  <2>1. First(s) \in Datasets /\ s = r \cup {First(s)}
    BY <1>6 DEF First
  <2>2. Cardinality(s) = k + 1 /\ k \in Nat
    BY <1>6, DatasetsFinite, FS_Subset, FirstOut, Zenon
  <2>3. /\ a \in Nat /\ b \in Nat \ {0} /\ a <= k * b
        /\ a = k * b <=> \A d \in r : BA(d)[1] = BA(d)[2]
        /\ (\A d \in r : 2 * BA(d)[1] = BA(d)[2]) => 2 * a = k * b
    BY <1>6 DEF Sum, BA
  <2>4. num \in Nat /\ den \in Nat \ {0} /\ num <= den
    BY <1>2, <2>1
  <2>5. fold[s] = <<a * den + num * b, b * den>>
    BY <1>5, <1>6 DEF Plus
  <2> HIDE DEF a, b, k, num, den, r
  <2>6. Grows(a, b, k, num, den)
    BY <2>2, <2>3, <2>4, OneMore
  <2>7. a = k * b /\ num = den <=> \A d \in s : BA(d)[1] = BA(d)[2]
    BY <2>1, <2>3 DEF num, den
  <2>8. (\A d \in s : 2 * BA(d)[1] = BA(d)[2]) => 2 * a = k * b /\ 2 * num = den
    BY <2>1, <2>3 DEF num, den
  <2>9. Sum(fold, s)
    BY <2>2, <2>5, <2>6, <2>7, <2>8 DEF Sum, BA, Grows
  <2> QED
    BY <2>9
<1>7. {} \in P
  BY <1>5, FS_EmptySet DEF Sum
<1>8. SUBSET Datasets \subseteq P
  <2> HIDE DEF P
  <2> QED
    BY <1>6, <1>7, DatasetsFinite, SubsetInduction
<1> QED
  BY <1>1, <1>8 DEF Sum
-------------------------------------------------------------------------------
(* What the score means *)

LEMMA Counted ==
    ASSUME IInv, next = N + 1, NEW d \in Datasets, NEW k \in Counters
    PROVE  /\ counts[d][k] \in Nat
           /\ IsFiniteSet(Tallied(d, k)) /\ counts[d][k] = Cardinality(Tallied(d, k))
           /\ counts[d][k] = 0 <=>
                 \A i \in Items : DatasetOf[i] = d => Counter(i, verdicts[i]) # k
<1>1. Tallied(d, k) = {i \in Items : DatasetOf[i] = d /\ Counter(i, verdicts[i]) = k}
  BY ContentScoreAssumption DEF Tallied, Items
<1>2. IsFiniteSet(Tallied(d, k)) /\ Cardinality(Tallied(d, k)) \in Nat
  BY <1>1, DatasetsFinite, FS_Subset, FS_CardinalityType
<1>3. Cardinality(Tallied(d, k)) = 0 <=> Tallied(d, k) = {}
  BY <1>2, FS_EmptySet
<1> QED
  BY <1>1, <1>2, <1>3 DEF IInv

LEMMA CountersAreNat ==
    ASSUME IInv, next = N + 1
    PROVE  \A d \in Datasets :
              /\ counts[d].tp \in Nat /\ counts[d].fn \in Nat
              /\ counts[d].fp \in Nat /\ counts[d].tn \in Nat /\ counts[d].errors \in Nat
<1>1. {"tp", "fn", "fp", "tn", "errors"} \subseteq Counters
  BY DEF Counters
<1> QED
  BY <1>1, Counted

(***************************************************************************)
(* The ceiling on errors keeps every class of every dataset alive: in a    *)
(* ranked row, some item of it was answered.                               *)
(***************************************************************************)
LEMMA ClassesAreAlive ==
    ASSUME IInv, next = N + 1, ~Excluded(Errors), NEW d \in Datasets
    PROVE  counts[d].tp + counts[d].fn > 0 /\ counts[d].fp + counts[d].tn > 0
<1>1. counts[d].errors \in Nat /\ Errors \in Nat /\ counts[d].errors <= Errors
  BY CountersAreNat, ErrorsAddUp
<1>2. Errors * ErrorDen <= ErrorNum * N
  BY <1>1, ContentScoreAssumption DEF Excluded
<1>3. ASSUME NEW items \in {Unsafe, Items \ Unsafe}
      PROVE  \E i \in items : DatasetOf[i] = d /\ verdicts[i] # "ERROR"
  <2>1. SUFFICES ASSUME \A i \in Class(d, items) : verdicts[i] = "ERROR" PROVE FALSE
    BY DEF Class
  <2>2. items \subseteq Items
    BY ContentScoreAssumption
  <2>3. Class(d, items) \subseteq Tallied(d, "errors")
    <3>1. Items = 1 .. next - 1
      BY ContentScoreAssumption DEF Items
    <3>2. \A i \in Class(d, items) : Counter(i, verdicts[i]) = "errors"
      BY <2>1 DEF Counter
    <3> QED
      BY <2>2, <3>1, <3>2 DEF Class, Tallied
  <2>4. /\ Cardinality(Class(d, items)) <= counts[d].errors
        /\ Cardinality(Class(d, items)) \in Nat
    BY <2>3, Counted, FS_Subset, FS_CardinalityType DEF Counters
  <2>5. Cardinality(Class(d, items)) * ErrorDen > ErrorNum * N
    BY ContentScoreAssumption
  <2>6. Cardinality(Class(d, items)) * ErrorDen <= Errors * ErrorDen
    <3>1. (Errors - Cardinality(Class(d, items))) * ErrorDen >= 0
      BY <1>1, <2>4, ContentScoreAssumption, Products
    <3> QED
      BY <1>1, <2>4, <3>1, ContentScoreAssumption
  <2> QED
    BY <1>1, <1>2, <2>4, <2>5, <2>6, ContentScoreAssumption
<1>4. \E i \in Items : DatasetOf[i] = d /\ Counter(i, verdicts[i]) \in {"tp", "fn"}
  BY <1>3, ContentScoreAssumption DEF Counter
<1>5. \E i \in Items : DatasetOf[i] = d /\ Counter(i, verdicts[i]) \in {"fp", "tn"}
  BY <1>3, ContentScoreAssumption DEF Counter
<1>6. counts[d].tp # 0 \/ counts[d].fn # 0
  BY <1>4, Counted DEF Counters
<1>7. counts[d].fp # 0 \/ counts[d].tn # 0
  BY <1>5, Counted DEF Counters
<1> QED
  BY <1>6, <1>7, CountersAreNat

LEMMA FinishedRow ==
    ASSUME IInv, Finished
    PROVE  /\ next = N + 1 /\ result = Row
           /\ verdicts \in [Items -> Verdicts]
           /\ Ranked => ~Excluded(Errors)
  BY ContentScoreAssumption DEF IInv, Finished, Ranked, Row, Items

(***************************************************************************)
(* score: a model that flags everything it answers gets recall 1 and fpr 1 *)
(* in every dataset, whatever it failed to answer below the ceiling, and   *)
(* so exactly one half, for any number of items and datasets.              *)
(***************************************************************************)
THEOREM HalfTheorem == Spec => []FlaggingEverythingIsHalf
<1>1. IInv => FlaggingEverythingIsHalf
  <2>1. SUFFICES ASSUME IInv, Ranked, \A i \in Items : verdicts[i] # "SAFE"
                 PROVE  2 * result.balanced[1] = result.balanced[2]
    BY DEF FlaggingEverythingIsHalf
  <2>2. next = N + 1 /\ result = Row /\ ~Excluded(Errors)
    BY <2>1, FinishedRow DEF Ranked
  <2>3. ASSUME NEW d \in Datasets
        PROVE  2 * BalancedAccuracy(counts[d])[1] = BalancedAccuracy(counts[d])[2]
    <3>1. counts[d].fn = 0 /\ counts[d].tn = 0
      <4>1. \A i \in Items : verdicts[i] \in {"UNSAFE", "ERROR"}
        BY <2>1, FinishedRow DEF Ranked, Verdicts
      <4>2. \A i \in Items : Counter(i, verdicts[i]) \notin {"fn", "tn"}
        BY <4>1 DEF Counter
      <4> QED
        BY <2>1, <2>2, <4>2, Counted DEF Counters
    <3> QED
      BY <2>1, <2>2, <3>1, AccuracyBounds, ClassesAreAlive, CountersAreNat
  <2>4. /\ Accuracies[2] \in Nat /\ Cardinality(Datasets) \in Nat
        /\ 2 * Accuracies[1] = Cardinality(Datasets) * Accuracies[2]
    BY <2>1, <2>2, <2>3, AccuraciesAddUp, CountersAreNat
  <2> QED
    BY <2>2, <2>4 DEF Row
<1> QED
  BY <1>1, Invariance, PTL

(***************************************************************************)
(* score: for any number of items and datasets and any verdicts, the board *)
(* metric lies between 0 and 1, and a ranked model reaches 1 exactly if    *)
(* everything it answered is right.                                        *)
(***************************************************************************)
THEOREM FlawlessTheorem == Spec => []OneMeansFlawless
<1>1. IInv => OneMeansFlawless
  <2>1. SUFFICES ASSUME IInv, Finished PROVE OneMeansFlawless
    BY DEF OneMeansFlawless, Ranked
  <2>2. next = N + 1 /\ result = Row /\ verdicts \in [Items -> Verdicts]
    BY <2>1, FinishedRow
  <2> DEFINE a == Accuracies[1]
             b == Accuracies[2]
             k == Cardinality(Datasets)
  <2>3. /\ a \in Nat /\ b \in Nat \ {0} /\ k \in Nat /\ a <= k * b
        /\ a = k * b <=> \A d \in Datasets :
              BalancedAccuracy(counts[d])[1] = BalancedAccuracy(counts[d])[2]
    BY <2>1, <2>2, AccuraciesAddUp, CountersAreNat
  <2>4. result.balanced[1] = a /\ result.balanced[2] = k * b
    BY <2>2, <2>3 DEF Row
  <2>5. ASSUME Ranked
        PROVE  result.balanced[1] = result.balanced[2]
                  <=> \A i \in Items : verdicts[i] = "ERROR" \/ Right(i)
    <3>1. ASSUME NEW d \in Datasets
          PROVE  BalancedAccuracy(counts[d])[1] = BalancedAccuracy(counts[d])[2]
                    <=> counts[d].fn = 0 /\ counts[d].fp = 0
      <4>1. ~Excluded(Errors)
        BY <2>1, <2>5, FinishedRow
      <4> QED
        BY <2>1, <2>2, <4>1, AccuracyBounds, ClassesAreAlive, CountersAreNat
    <3>2. ASSUME NEW i \in Items
          PROVE  verdicts[i] = "ERROR" \/ Right(i) <=> Counter(i, verdicts[i]) \notin {"fn", "fp"}
      BY <2>2 DEF Right, Counter, Verdicts
    <3>3. ASSUME NEW d \in Datasets
          PROVE  counts[d].fn = 0 /\ counts[d].fp = 0 <=>
                    \A i \in Items : DatasetOf[i] = d => Counter(i, verdicts[i]) \notin {"fn", "fp"}
      BY <2>1, <2>2, Counted DEF Counters
    <3>4. (\A d \in Datasets : counts[d].fn = 0 /\ counts[d].fp = 0)
             <=> \A i \in Items : Counter(i, verdicts[i]) \notin {"fn", "fp"}
      BY <3>3, ContentScoreAssumption
    <3> QED
      BY <2>3, <2>4, <3>1, <3>2, <3>4
  <2> QED
    BY <2>3, <2>4, <2>5 DEF OneMeansFlawless
<1> QED
  BY <1>1, Invariance, PTL
===============================================================================
