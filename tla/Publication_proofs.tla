-------------------------- MODULE Publication_proofs --------------------------
(***************************************************************************)
(* Proofs about PortableJson's sorted lists and about Publication, for any *)
(* texts, drafts and edits and any number of edits.                        *)
(***************************************************************************)
EXTENDS Publication, FiniteSetTheorems, TLAPS

-------------------------------------------------------------------------------
(* Sorted lists *)

LEMMA LeastElement ==
    ASSUME NEW S \in SUBSET Nat, S # {}
    PROVE  \E x \in S : \A y \in S : x <= y
<1>1. \E x \in S : \A y \in S : ~ (<<y, x>> \in OpToRel(<, Nat))
  BY WFMin, NatLessThanWellFounded, Zenon
<1>2. \E x \in S : \A y \in S : ~ (y < x)
  BY <1>1, Zenon DEF OpToRel
<1> QED
  BY <1>2

(***************************************************************************)
(* Keys of one length are totally ordered: the first text in which two of  *)
(* them differ decides.                                                    *)
(***************************************************************************)
Keys(m) == [1 .. m -> Texts]

LEMMA KeysAreOrdered ==
    ASSUME NEW m \in Nat, NEW k \in Keys(m), NEW l \in Keys(m), NEW n \in Keys(m)
    PROVE  /\ ~Precedes(k, k)
           /\ k # l => Precedes(k, l) \/ Precedes(l, k)
           /\ Precedes(k, l) /\ Precedes(l, n) => Precedes(k, n)
<1>1. /\ DOMAIN k = 1 .. m /\ DOMAIN l = 1 .. m /\ DOMAIN n = 1 .. m
      /\ \A i \in 1 .. m : /\ k[i] \in Texts /\ l[i] \in Texts /\ n[i] \in Texts
                           /\ Rank[k[i]] \in Int /\ Rank[l[i]] \in Int /\ Rank[n[i]] \in Int
  BY PortableJsonAssumption DEF Keys, Texts
<1>2. ~Precedes(k, k)
  BY <1>1 DEF Precedes
<1>3. ASSUME k # l PROVE Precedes(k, l) \/ Precedes(l, k)
  <2> DEFINE D == {i \in 1 .. m : k[i] # l[i]}
  <2>1. D \in SUBSET Nat /\ D # {}
    BY <1>3 DEF Keys
  <2>2. PICK i \in D : \A j \in D : i <= j
    BY <2>1, LeastElement
  <2>3. \A h \in 1 .. i - 1 : k[h] = l[h] /\ l[h] = k[h]
    BY <2>2
  <2>4. Rank[k[i]] # Rank[l[i]]
    BY <1>1, <2>2, PortableJsonAssumption DEF Texts
  <2>5. Rank[k[i]] < Rank[l[i]] \/ Rank[l[i]] < Rank[k[i]]
    BY <1>1, <2>2, <2>4
  <2> QED
    BY <1>1, <2>2, <2>3, <2>5 DEF Precedes
<1>4. ASSUME Precedes(k, l), Precedes(l, n) PROVE Precedes(k, n)
  <2>1. PICK i \in 1 .. m : Rank[k[i]] < Rank[l[i]] /\ \A h \in 1 .. i - 1 : k[h] = l[h]
    BY <1>1, <1>4 DEF Precedes
  <2>2. PICK j \in 1 .. m : Rank[l[j]] < Rank[n[j]] /\ \A h \in 1 .. j - 1 : l[h] = n[h]
    BY <1>1, <1>4 DEF Precedes
  <2>3. CASE i < j
    <3>1. l[i] = n[i] /\ \A h \in 1 .. i - 1 : k[h] = n[h]
      BY <2>1, <2>2, <2>3
    <3> QED
      BY <1>1, <2>1, <3>1 DEF Precedes
  <2>4. CASE j < i
    <3>1. l[j] = k[j] /\ \A h \in 1 .. j - 1 : k[h] = n[h]
      BY <2>1, <2>2, <2>4
    <3> QED
      BY <1>1, <2>2, <3>1 DEF Precedes
  <2>5. CASE i = j
    <3>1. Rank[k[i]] < Rank[n[i]]
      BY <1>1, <2>1, <2>2, <2>5
    <3>2. \A h \in 1 .. i - 1 : k[h] = n[h]
      BY <2>1, <2>2, <2>5
    <3> QED
      BY <1>1, <3>1, <3>2 DEF Precedes
  <2> QED
    BY <2>3, <2>4, <2>5
<1> QED
  BY <1>2, <1>3, <1>4

(***************************************************************************)
(* Sorting a list whose keys are unique puts each of its elements in its   *)
(* place, in ascending order of the keys.                                  *)
(***************************************************************************)
Arranged(s, key) == Sorted(s, [i \in DOMAIN s |-> key[s[i]]])

Distinct(s, key) == \A i, j \in DOMAIN s : key[s[i]] = key[s[j]] => i = j

Ascending(s, key) == \A i, j \in DOMAIN s : i < j => Precedes(key[s[i]], key[s[j]])

LEMMA SortingArranges ==
    ASSUME NEW A, NEW m \in Nat, NEW key \in [A -> Keys(m)],
           NEW s \in Seq(A), Distinct(s, key)
    PROVE  /\ Arranged(s, key) \in Seq(A)
           /\ Len(Arranged(s, key)) = Len(s)
           /\ Range(Arranged(s, key)) = Range(s)
           /\ Ascending(Arranged(s, key), key)
<1> DEFINE n == Len(s)
           D == DOMAIN s
           keys == [i \in DOMAIN s |-> key[s[i]]]
           Before(i) == {j \in DOMAIN s : \/ Precedes(keys[j], keys[i])
                                          \/ keys[j] = keys[i] /\ j < i}
           pos == [i \in D |-> Cardinality(Before(i))]
           t == Arranged(s, key)
<1>1. /\ n \in Nat /\ D = 1 .. n /\ \A i \in D : s[i] \in A /\ key[s[i]] \in Keys(m)
      /\ \A i, j \in D : key[s[i]] = key[s[j]] => i = j
  BY DEF Distinct
<1>2. \A i, j \in D : j \in Before(i) <=> i # j /\ Precedes(key[s[j]], key[s[i]])
  <2>1. \A i \in D : ~Precedes(key[s[i]], key[s[i]])
    BY <1>1, KeysAreOrdered
  <2> QED
    BY <1>1, <2>1
<1>3. IsFiniteSet(D) /\ Cardinality(D) = n /\ D \subseteq Int
  <2> HIDE DEF n, D
  <2> QED
    BY <1>1, FS_Interval
<1>4. ASSUME NEW i \in D
      PROVE  IsFiniteSet(Before(i)) /\ pos[i] \in 0 .. n - 1 /\ i \notin Before(i)
  <2>1. Before(i) \in SUBSET (D \ {i}) /\ i \notin Before(i)
    BY <1>2
  <2>2. IsFiniteSet(D \ {i}) /\ Cardinality(D \ {i}) = n - 1
    BY <1>3, FS_RemoveElement
  <2>3. IsFiniteSet(Before(i)) /\ Cardinality(Before(i)) <= n - 1
    BY <2>1, <2>2, FS_Subset
  <2>4. Cardinality(Before(i)) \in Nat
    BY <2>3, FS_CardinalityType
  <2> HIDE DEF Before
  <2>5. Cardinality(Before(i)) \in 0 .. n - 1
    BY <1>1, <2>3, <2>4
  <2> QED
    BY <2>1, <2>3, <2>5
<1>5. ASSUME NEW i \in D, NEW j \in D, j \in Before(i) PROVE pos[j] < pos[i]
  <2>1. \A h \in D : h \in Before(j) => h \in Before(i)
    <3> SUFFICES ASSUME NEW h \in D, h \in Before(j) PROVE h \in Before(i)
      OBVIOUS
    <3>1. Precedes(key[s[h]], key[s[j]]) /\ Precedes(key[s[j]], key[s[i]])
      BY <1>2, <1>5
    <3>2. Precedes(key[s[h]], key[s[i]])
      BY <1>1, <3>1, KeysAreOrdered
    <3> QED
      BY <3>2
  <2>2. Before(j) \in SUBSET Before(i) /\ Before(j) # Before(i)
    <3>1. j \notin Before(j)
      BY <1>4
    <3> QED
      BY <1>5, <2>1, <3>1
  <2>3. Cardinality(Before(j)) <= Cardinality(Before(i)) /\ Cardinality(Before(j)) # Cardinality(Before(i))
    BY <1>4, <2>2, FS_Subset
  <2>4. pos[i] \in 0 .. n - 1 /\ pos[j] \in 0 .. n - 1
    BY <1>4
  <2> HIDE DEF Before
  <2> QED
    BY <2>3, <2>4
<1>6. \A i, j \in D : i # j => j \in Before(i) \/ i \in Before(j)
  <2> SUFFICES ASSUME NEW i \in D, NEW j \in D, i # j PROVE j \in Before(i) \/ i \in Before(j)
    OBVIOUS
  <2>1. key[s[i]] # key[s[j]]
    BY <1>1
  <2>2. Precedes(key[s[i]], key[s[j]]) \/ Precedes(key[s[j]], key[s[i]])
    BY <1>1, <2>1, KeysAreOrdered
  <2> QED
    BY <1>2, <2>2
<1>7. t = [k \in DOMAIN s |-> s[CHOOSE i \in DOMAIN s : Cardinality(Before(i)) = k - 1]]
  BY DEF Arranged, Sorted
<1> HIDE DEF Before, t
<1>8. \A i, j \in D : pos[i] = pos[j] => i = j
  <2> SUFFICES ASSUME NEW i \in D, NEW j \in D, i # j PROVE pos[i] # pos[j]
    OBVIOUS
  <2>1. pos[j] < pos[i] \/ pos[i] < pos[j]
    BY <1>5, <1>6
  <2>2. pos[i] \in Int /\ pos[j] \in Int
    BY <1>4
  <2> HIDE DEF pos
  <2> QED
    BY <2>1, <2>2
<1>9. \A k \in D : \E i \in D : pos[i] = k - 1
  <2>1. pos \in Injection(D, 0 .. n - 1)
    <3>1. pos \in [D -> 0 .. n - 1]
      BY <1>4
    <3> QED
      BY <1>8, <3>1 DEF Injection, IsInjective
  <2>2. IsFiniteSet(0 .. n - 1) /\ Cardinality(0 .. n - 1) = n
    <3> HIDE DEF n
    <3> QED
      BY <1>1, FS_Interval
  <2>3. pos \in Surjection(D, 0 .. n - 1)
    BY <1>3, <2>1, <2>2, FS_Injection
  <2>4. \A k \in D : k - 1 \in 0 .. n - 1
    BY <1>1
  <2> QED
    BY <2>3, <2>4 DEF Surjection
<1> DEFINE q == [k \in D |-> CHOOSE i \in DOMAIN s : Cardinality(Before(i)) = k - 1]
<1>10. \A k \in D : q[k] \in D /\ pos[q[k]] = k - 1 /\ t[k] = s[q[k]]
  BY <1>7, <1>9
<1>11. DOMAIN t = D /\ t \in Seq(A) /\ Len(t) = n
  <2>1. t \in [1 .. n -> A]
    BY <1>1, <1>7, <1>10
  <2> QED
    BY <1>1, <2>1
<1> HIDE DEF q
<1>12. \A i \in D : \E k \in D : q[k] = i
  <2> SUFFICES ASSUME NEW i \in D PROVE \E k \in D : q[k] = i
    OBVIOUS
  <2>1. pos[i] + 1 \in D /\ pos[i] \in Int
    BY <1>1, <1>4
  <2> HIDE DEF pos
  <2>2. PICK k \in D : k - 1 = pos[i]
    BY <2>1
  <2> QED
    BY <1>8, <1>10, <2>2
<1>13. Range(t) = Range(s)
  <2> HIDE DEF pos
  <2>1. \A k \in D : q[k] \in D /\ t[k] = s[q[k]]
    BY <1>10
  <2> QED
    BY <1>11, <1>12, <2>1 DEF Range
<1>14. ASSUME NEW k \in D, NEW l \in D, k < l PROVE Precedes(key[t[k]], key[t[l]])
  <2> HIDE DEF pos
  <2>1. q[k] \in D /\ q[l] \in D /\ pos[q[k]] < pos[q[l]] /\ pos[q[k]] \in Int /\ pos[q[l]] \in Int
    BY <1>1, <1>10, <1>14
  <2>2. q[k] # q[l] /\ q[l] \notin Before(q[k])
    <3>1. q[l] \in Before(q[k]) => pos[q[l]] < pos[q[k]]
      BY <1>5, <2>1
    <3> QED
      BY <2>1, <3>1
  <2>3. q[k] \in Before(q[l])
    BY <1>6, <2>1, <2>2
  <2> QED
    BY <1>2, <1>10, <2>1, <2>3
<1> QED
  BY <1>11, <1>13, <1>14 DEF t, Ascending

(***************************************************************************)
(* There is just one ascending list of given elements.                     *)
(***************************************************************************)
LEMMA AscendingIsUnique ==
    ASSUME NEW A, NEW m \in Nat, NEW key \in [A -> Keys(m)],
           NEW s \in Seq(A), NEW t \in Seq(A),
           Ascending(s, key), Ascending(t, key), Range(s) = Range(t)
    PROVE  s = t
<1>1. /\ Len(s) \in Nat /\ DOMAIN s = 1 .. Len(s) /\ \A i \in DOMAIN s : s[i] \in A
      /\ Len(t) \in Nat /\ DOMAIN t = 1 .. Len(t) /\ \A i \in DOMAIN t : t[i] \in A
  OBVIOUS
<1>2. \A a, b \in A : ~(Precedes(key[a], key[b]) /\ Precedes(key[b], key[a]))
  <2> SUFFICES ASSUME NEW a \in A, NEW b \in A, Precedes(key[a], key[b]), Precedes(key[b], key[a])
               PROVE  FALSE
    OBVIOUS
  <2>1. key[a] \in Keys(m) /\ key[b] \in Keys(m)
    OBVIOUS
  <2> QED
    BY <2>1, KeysAreOrdered
<1>3. \A u, v \in {s, t} : \A i \in DOMAIN u : \E j \in DOMAIN v : u[i] = v[j]
  <2>1. /\ \A i \in DOMAIN s : s[i] \in Range(t)
        /\ \A i \in DOMAIN t : t[i] \in Range(s)
    BY DEF Range
  <2>2. /\ \A i \in DOMAIN s : \E j \in DOMAIN t : s[i] = t[j]
        /\ \A i \in DOMAIN t : \E j \in DOMAIN s : t[i] = s[j]
    BY <2>1, Zenon DEF Range
  <2> QED
    BY <2>2
<1>4. \A u \in {s, t} : \A i, j \in DOMAIN u : i < j => u[i] # u[j] /\ Precedes(key[u[i]], key[u[j]])
  BY <1>1, <1>2 DEF Ascending
\* The first place where the lists differ, or where one of them has ended, would have
\* to be filled by an element that the other list has later.
<1> DEFINE Differ == {i \in DOMAIN s \cup DOMAIN t :
                        ~(i \in DOMAIN s /\ i \in DOMAIN t /\ s[i] = t[i])}
<1>5. ASSUME Differ # {} PROVE FALSE
  <2>1. Differ \in SUBSET Nat
    BY <1>1
  <2>2. PICK i \in Differ : \A j \in Differ : i <= j
    BY <1>5, <2>1, LeastElement
  <2>3. /\ i \in Nat /\ i \in DOMAIN s \cup DOMAIN t
        /\ ~(i \in DOMAIN s /\ i \in DOMAIN t /\ s[i] = t[i])
        /\ \A j \in DOMAIN s \cup DOMAIN t :
              j < i => j \in DOMAIN s /\ j \in DOMAIN t /\ s[j] = t[j]
    <3>1. \A j \in DOMAIN s \cup DOMAIN t : j < i => j \notin Differ
      BY <1>1, <2>1, <2>2
    <3> QED
      BY <2>1, <2>2, <3>1
  <2> HIDE DEF Differ
  <2>4. ASSUME NEW u \in {s, t}, NEW v \in {s, t}, i \in DOMAIN u,
               ~(i \in DOMAIN v /\ u[i] = v[i]), {u, v} = {s, t}
        PROVE  \E j \in DOMAIN v : i < j /\ v[j] = u[i]
    <3>1. PICK j \in DOMAIN v : u[i] = v[j]
      BY <1>3, <2>4
    <3>2. j \in Nat /\ j # i
      BY <1>1, <2>4, <3>1
    <3>3. ~(j < i)
      <4>1. j < i => j \in DOMAIN u /\ u[j] = v[j]
        BY <2>3, <2>4
      <4> QED
        BY <1>1, <1>4, <2>3, <2>4, <3>1, <4>1
    <3> QED
      BY <2>3, <3>1, <3>2, <3>3
  <2>5. CASE i \in DOMAIN s /\ i \in DOMAIN t
    <3>1. (\E j \in DOMAIN t : i < j /\ t[j] = s[i]) /\ (\E j \in DOMAIN s : i < j /\ s[j] = t[i])
      BY <2>3, <2>4, <2>5
    <3>2. Precedes(key[t[i]], key[s[i]]) /\ Precedes(key[s[i]], key[t[i]])
      BY <1>4, <2>5, <3>1
    <3> QED
      BY <1>1, <1>2, <2>5, <3>2
  <2>6. CASE i \in DOMAIN s /\ i \notin DOMAIN t
    <3>1. \E j \in DOMAIN t : i < j
      BY <2>4, <2>6
    <3> QED
      BY <1>1, <2>6, <3>1
  <2>7. CASE i \in DOMAIN t /\ i \notin DOMAIN s
    <3>1. \E j \in DOMAIN s : i < j
      BY <2>4, <2>7
    <3> QED
      BY <1>1, <2>7, <3>1
  <2> QED
    BY <2>3, <2>5, <2>6, <2>7
<1>6. DOMAIN s = DOMAIN t /\ \A i \in DOMAIN s : s[i] = t[i]
  BY <1>5
<1> QED
  BY <1>6

(***************************************************************************)
(* What sorting does to lists with unique keys: it keeps the elements, is  *)
(* idempotent, and forgets the order and nothing else.                     *)
(***************************************************************************)
LEMMA SortingForgetsOrder ==
    ASSUME NEW A, NEW m \in Nat, NEW key \in [A -> Keys(m)],
           NEW s \in Seq(A), Distinct(s, key)
    PROVE  /\ Arranged(s, key) \in Seq(A)
           /\ Range(Arranged(s, key)) = Range(s)
           /\ Distinct(Arranged(s, key), key)
           /\ Arranged(Arranged(s, key), key) = Arranged(s, key)
           /\ (Arranged(s, key) = <<>>) <=> (s = <<>>)
           /\ \A t \in Seq(A) : Distinct(t, key) /\ Range(t) = Range(s) =>
                 Arranged(t, key) = Arranged(s, key)
<1> DEFINE a == Arranged(s, key)
<1>1. a \in Seq(A) /\ Len(a) = Len(s) /\ Range(a) = Range(s) /\ Ascending(a, key)
  BY SortingArranges
<1> HIDE DEF a
<1>2. Distinct(a, key)
  <2> SUFFICES ASSUME NEW i \in DOMAIN a, NEW j \in DOMAIN a, i < j
               PROVE  key[a[i]] # key[a[j]]
    <3>1. \A i, j \in DOMAIN a : i < j \/ j < i \/ i = j
      BY <1>1
    <3> QED
      BY <3>1 DEF Distinct
  <2>1. key[a[i]] \in Keys(m) /\ Precedes(key[a[i]], key[a[j]])
    BY <1>1 DEF Ascending
  <2> QED
    BY <2>1, KeysAreOrdered
<1>3. ASSUME NEW t \in Seq(A), Distinct(t, key), Range(t) = Range(s) PROVE Arranged(t, key) = a
  <2>1. /\ Arranged(t, key) \in Seq(A) /\ Range(Arranged(t, key)) = Range(t)
        /\ Ascending(Arranged(t, key), key)
    BY <1>3, SortingArranges
  <2> QED
    BY <1>1, <1>3, <2>1, AscendingIsUnique
<1>4. Arranged(a, key) = a
  BY <1>1, <1>2, <1>3
<1>5. (a = <<>>) <=> (s = <<>>)
  BY <1>1
<1> QED
  BY <1>1, <1>2, <1>3, <1>4, <1>5 DEF a
-------------------------------------------------------------------------------
(* The keys of a receipt's sets *)

NormalExclusions == {e \in Exclusions : \A f \in DOMAIN e : e[f] # Null}

textKey      == [s \in Texts |-> <<s>>]
familyKey    == [f \in Families |-> <<f.family_id>>]
caveatKey    == [c \in Caveats |-> <<c.code>>]
exclusionKey ==
    [e \in NormalExclusions |->
        <<e.model_key, IF Has(e, "reasoning_effort") THEN e.reasoning_effort ELSE "", e.code>>]

LEMMA KeyTypes ==
    /\ textKey \in [Texts -> Keys(1)]
    /\ familyKey \in [Families -> Keys(1)]
    /\ caveatKey \in [Caveats -> Keys(1)]
    /\ exclusionKey \in [NormalExclusions -> Keys(3)]
<1>1. \A s \in Texts : <<s>> \in Keys(1)
  BY DEF Keys
<1>2. \A f \in Families : f.family_id \in Texts
  BY DEF Families
<1>3. \A c \in Caveats : c.code \in Texts
  BY DEF Caveats
<1>4. ASSUME NEW e \in NormalExclusions
      PROVE  <<e.model_key, IF Has(e, "reasoning_effort") THEN e.reasoning_effort ELSE "",
               e.code>> \in Keys(3)
  <2>1. e.model_key \in Texts /\ e.code \in Texts
        /\ (IF Has(e, "reasoning_effort") THEN e.reasoning_effort ELSE "") \in Texts
    <3>1. PICK D \in SUBSET {"model_key", "reasoning_effort", "code", "detail"} :
              e \in [D -> Texts \cup {Null}]
      BY DEF NormalExclusions, Exclusions
    <3>2. \A f \in D : e[f] \in Texts
      BY <3>1 DEF NormalExclusions
    <3>3. "model_key" \in D /\ "code" \in D
      BY <3>1 DEF NormalExclusions, Exclusions, Has
    <3> QED
      BY <3>1, <3>2, <3>3, PublicationAssumption DEF Has
  <2>2. \A x, y, z \in Texts : <<x, y, z>> \in Keys(3)
    BY DEF Keys
  <2> QED
    BY <2>1, <2>2
<1> QED
  BY <1>1, <1>2, <1>3, <1>4 DEF textKey, familyKey, caveatKey, exclusionKey

(***************************************************************************)
(* What SortingForgetsOrder says of the four kinds of sets.                *)
(***************************************************************************)
Forgets(A, key) ==
    \A s \in Seq(A) : Distinct(s, key) =>
        /\ Arranged(s, key) \in Seq(A)
        /\ Range(Arranged(s, key)) = Range(s)
        /\ Distinct(Arranged(s, key), key)
        /\ Arranged(Arranged(s, key), key) = Arranged(s, key)
        /\ (Arranged(s, key) = <<>>) <=> (s = <<>>)
        /\ \A t \in Seq(A) : Distinct(t, key) /\ Range(t) = Range(s) =>
              Arranged(t, key) = Arranged(s, key)

LEMMA SetsAreSorted ==
    /\ Forgets(Texts, textKey)
    /\ Forgets(Families, familyKey)
    /\ Forgets(Caveats, caveatKey)
    /\ Forgets(NormalExclusions, exclusionKey)
<1>1. ASSUME NEW A, NEW m \in Nat, NEW key \in [A -> Keys(m)] PROVE Forgets(A, key)
  BY SortingForgetsOrder DEF Forgets
<1> QED
  BY <1>1, KeyTypes

(***************************************************************************)
(* Both readers sort and compare by these keys.                            *)
(***************************************************************************)
LEMMA PySorts ==
    /\ \A s \in Seq(Texts) : /\ Py!SortedBy(s, Py!Text) = Arranged(s, textKey)
                             /\ Py!Unique(s, Py!Text) <=> Distinct(s, textKey)
    /\ \A s \in Seq(Families) : /\ Py!SortedBy(s, Py!FamilyKey) = Arranged(s, familyKey)
                                /\ Py!Unique(s, Py!FamilyKey) <=> Distinct(s, familyKey)
    /\ \A s \in Seq(Caveats) : /\ Py!SortedBy(s, Py!CaveatKey) = Arranged(s, caveatKey)
                               /\ Py!Unique(s, Py!CaveatKey) <=> Distinct(s, caveatKey)
    /\ \A s \in Seq(NormalExclusions) :
          /\ Py!SortedBy(s, Py!ExclusionKey) = Arranged(s, exclusionKey)
          /\ Py!Unique(s, Py!ExclusionKey) <=> Distinct(s, exclusionKey)
<1>1. ASSUME NEW s, NEW k PROVE Py!Sorted(s, k) = Sorted(s, k)
  BY DEF Py!Sorted, Sorted, Py!Precedes, Precedes, Py!Cardinality, Cardinality
<1>2. ASSUME NEW s \in Seq(Texts)
      PROVE  Py!SortedBy(s, Py!Text) = Arranged(s, textKey)
             /\ (Py!Unique(s, Py!Text) <=> Distinct(s, textKey))
  <2>1. \A i \in DOMAIN s : Py!Text(s[i]) = textKey[s[i]]
    BY DEF Py!Text, textKey
  <2>2. [i \in DOMAIN s |-> Py!Text(s[i])] = [i \in DOMAIN s |-> textKey[s[i]]]
    BY <2>1
  <2> QED
    BY <1>1, <2>1, <2>2 DEF Py!SortedBy, Arranged, Py!Unique, Distinct
<1>3. ASSUME NEW s \in Seq(Families)
      PROVE  Py!SortedBy(s, Py!FamilyKey) = Arranged(s, familyKey)
             /\ (Py!Unique(s, Py!FamilyKey) <=> Distinct(s, familyKey))
  <2>1. \A i \in DOMAIN s : Py!FamilyKey(s[i]) = familyKey[s[i]]
    BY DEF Py!FamilyKey, Py!Text, familyKey
  <2>2. [i \in DOMAIN s |-> Py!FamilyKey(s[i])] = [i \in DOMAIN s |-> familyKey[s[i]]]
    BY <2>1
  <2> QED
    BY <1>1, <2>1, <2>2 DEF Py!SortedBy, Arranged, Py!Unique, Distinct
<1>4. ASSUME NEW s \in Seq(Caveats)
      PROVE  Py!SortedBy(s, Py!CaveatKey) = Arranged(s, caveatKey)
             /\ (Py!Unique(s, Py!CaveatKey) <=> Distinct(s, caveatKey))
  <2>1. \A i \in DOMAIN s : Py!CaveatKey(s[i]) = caveatKey[s[i]]
    BY DEF Py!CaveatKey, Py!Text, caveatKey
  <2>2. [i \in DOMAIN s |-> Py!CaveatKey(s[i])] = [i \in DOMAIN s |-> caveatKey[s[i]]]
    BY <2>1
  <2> QED
    BY <1>1, <2>1, <2>2 DEF Py!SortedBy, Arranged, Py!Unique, Distinct
<1>5. ASSUME NEW s \in Seq(NormalExclusions)
      PROVE  Py!SortedBy(s, Py!ExclusionKey) = Arranged(s, exclusionKey)
             /\ (Py!Unique(s, Py!ExclusionKey) <=> Distinct(s, exclusionKey))
  <2>1. \A i \in DOMAIN s : Py!ExclusionKey(s[i]) = exclusionKey[s[i]]
    <3>1. ASSUME NEW e \in NormalExclusions PROVE Py!ExclusionKey(e) = exclusionKey[e]
      BY DEF Py!ExclusionKey, Py!Has, Has, exclusionKey
    <3> QED
      BY <3>1
  <2>2. [i \in DOMAIN s |-> Py!ExclusionKey(s[i])] = [i \in DOMAIN s |-> exclusionKey[s[i]]]
    BY <2>1
  <2> QED
    BY <1>1, <2>1, <2>2 DEF Py!SortedBy, Arranged, Py!Unique, Distinct
<1> QED
  BY <1>2, <1>3, <1>4, <1>5

LEMMA TsSorts ==
    /\ \A s \in Seq(Texts) : /\ Ts!SortedBy(s, Ts!Text) = Arranged(s, textKey)
                             /\ Ts!Unique(s, Ts!Text) <=> Distinct(s, textKey)
    /\ \A s \in Seq(Families) : /\ Ts!SortedBy(s, Ts!FamilyKey) = Arranged(s, familyKey)
                                /\ Ts!Unique(s, Ts!FamilyKey) <=> Distinct(s, familyKey)
    /\ \A s \in Seq(Caveats) : /\ Ts!SortedBy(s, Ts!CaveatKey) = Arranged(s, caveatKey)
                               /\ Ts!Unique(s, Ts!CaveatKey) <=> Distinct(s, caveatKey)
    /\ \A s \in Seq(NormalExclusions) :
          /\ Ts!SortedBy(s, Ts!ExclusionKey) = Arranged(s, exclusionKey)
          /\ Ts!Unique(s, Ts!ExclusionKey) <=> Distinct(s, exclusionKey)
<1>1. ASSUME NEW s, NEW k PROVE Ts!Sorted(s, k) = Sorted(s, k)
  BY DEF Ts!Sorted, Sorted, Ts!Precedes, Precedes, Ts!Cardinality, Cardinality
<1>2. ASSUME NEW s \in Seq(Texts)
      PROVE  Ts!SortedBy(s, Ts!Text) = Arranged(s, textKey)
             /\ (Ts!Unique(s, Ts!Text) <=> Distinct(s, textKey))
  <2>1. \A i \in DOMAIN s : Ts!Text(s[i]) = textKey[s[i]]
    BY DEF Ts!Text, textKey
  <2>2. [i \in DOMAIN s |-> Ts!Text(s[i])] = [i \in DOMAIN s |-> textKey[s[i]]]
    BY <2>1
  <2> QED
    BY <1>1, <2>1, <2>2 DEF Ts!SortedBy, Arranged, Ts!Unique, Distinct
<1>3. ASSUME NEW s \in Seq(Families)
      PROVE  Ts!SortedBy(s, Ts!FamilyKey) = Arranged(s, familyKey)
             /\ (Ts!Unique(s, Ts!FamilyKey) <=> Distinct(s, familyKey))
  <2>1. \A i \in DOMAIN s : Ts!FamilyKey(s[i]) = familyKey[s[i]]
    BY DEF Ts!FamilyKey, Ts!Text, familyKey
  <2>2. [i \in DOMAIN s |-> Ts!FamilyKey(s[i])] = [i \in DOMAIN s |-> familyKey[s[i]]]
    BY <2>1
  <2> QED
    BY <1>1, <2>1, <2>2 DEF Ts!SortedBy, Arranged, Ts!Unique, Distinct
<1>4. ASSUME NEW s \in Seq(Caveats)
      PROVE  Ts!SortedBy(s, Ts!CaveatKey) = Arranged(s, caveatKey)
             /\ (Ts!Unique(s, Ts!CaveatKey) <=> Distinct(s, caveatKey))
  <2>1. \A i \in DOMAIN s : Ts!CaveatKey(s[i]) = caveatKey[s[i]]
    BY DEF Ts!CaveatKey, Ts!Text, caveatKey
  <2>2. [i \in DOMAIN s |-> Ts!CaveatKey(s[i])] = [i \in DOMAIN s |-> caveatKey[s[i]]]
    BY <2>1
  <2> QED
    BY <1>1, <2>1, <2>2 DEF Ts!SortedBy, Arranged, Ts!Unique, Distinct
<1>5. ASSUME NEW s \in Seq(NormalExclusions)
      PROVE  Ts!SortedBy(s, Ts!ExclusionKey) = Arranged(s, exclusionKey)
             /\ (Ts!Unique(s, Ts!ExclusionKey) <=> Distinct(s, exclusionKey))
  <2>1. \A i \in DOMAIN s : Ts!ExclusionKey(s[i]) = exclusionKey[s[i]]
    <3>1. ASSUME NEW e \in NormalExclusions PROVE Ts!ExclusionKey(e) = exclusionKey[e]
      BY DEF Ts!ExclusionKey, Ts!Has, Has, exclusionKey
    <3> QED
      BY <3>1
  <2>2. [i \in DOMAIN s |-> Ts!ExclusionKey(s[i])] = [i \in DOMAIN s |-> exclusionKey[s[i]]]
    BY <2>1
  <2> QED
    BY <1>1, <2>1, <2>2 DEF Ts!SortedBy, Arranged, Ts!Unique, Distinct
<1> QED
  BY <1>2, <1>3, <1>4, <1>5
-------------------------------------------------------------------------------
(* Normal bodies *)

(***************************************************************************)
(* A body without the spellings that one of the readers changes while it   *)
(* reads: a null in an exclusion, a weight written as a float.             *)
(***************************************************************************)
Plain(b) ==
    /\ AreFields(b, BodyFields)
    /\ b.exclusions \in Seq(NormalExclusions)
    /\ \A k \in DOMAIN b.families : b.families[k].weight_ppm # "1.0"

QueryInOrder(q) ==
    [f \in DOMAIN q |-> IF f = "provider_ids" THEN Arranged(q[f], textKey) ELSE q[f]]

SelectionInOrder(s) == [s EXCEPT !.caveats = Arranged(s.caveats, caveatKey)]

InOrder(b) ==
    [f \in BodyFields |->
        CASE f = "query"      -> QueryInOrder(b.query)
          [] f = "families"   -> Arranged(b.families, familyKey)
          [] f = "selections" -> [k \in DOMAIN b.selections |-> SelectionInOrder(b.selections[k])]
          [] f = "exclusions" -> Arranged(b.exclusions, exclusionKey)
          [] f \in {"snapshot_ids", "abstain_reasons"} -> Arranged(b[f], textKey)
          [] OTHER            -> b[f]]

LEMMA Types ==
    ASSUME NEW b, AreFields(b, BodyFields)
    PROVE  /\ b = [f \in BodyFields |-> b[f]] /\ DOMAIN b = BodyFields
           /\ b.query = [f \in DOMAIN b.query |-> b.query[f]]
           /\ Has(b.query, "provider_ids") => b.query.provider_ids \in Seq(Texts) \cup {Null}
           /\ b.snapshot_ids \in Seq(Texts) /\ b.abstain_reasons \in Seq(Texts)
           /\ b.families \in Seq(Families)
           /\ b.selections \in Seq(Selections)
           /\ b.exclusions \in Seq(Exclusions)
           /\ \A k \in DOMAIN b.families : b.families[k] \in Families
           /\ \A k \in DOMAIN b.selections : b.selections[k] \in Selections
           /\ b.selections # <<>> => 1 \in DOMAIN b.selections
<1>1. b = [f \in BodyFields |-> b[f]] /\ \A f \in BodyFields : Fits(f, b[f])
  BY DEF AreFields
<1>2. /\ Fits("query", b.query) /\ Fits("families", b.families) /\ Fits("selections", b.selections)
      /\ Fits("exclusions", b.exclusions) /\ Fits("snapshot_ids", b.snapshot_ids)
      /\ Fits("abstain_reasons", b.abstain_reasons)
  BY <1>1 DEF BodyFields
<1>3. /\ b = [f \in BodyFields |-> b[f]] /\ DOMAIN b = BodyFields
      /\ b.query = [f \in DOMAIN b.query |-> b.query[f]]
      /\ Has(b.query, "provider_ids") => b.query.provider_ids \in Seq(Texts) \cup {Null}
      /\ b.snapshot_ids \in Seq(Texts) /\ b.abstain_reasons \in Seq(Texts)
      /\ b.families \in Seq(Families)
      /\ b.selections \in Seq(Selections)
      /\ b.exclusions \in Seq(Exclusions)
  BY <1>1, <1>2 DEF Fits, IsQuery
<1>4. ASSUME NEW A, NEW s \in Seq(A)
      PROVE  (\A k \in DOMAIN s : s[k] \in A) /\ (s # <<>> => 1 \in DOMAIN s)
  OBVIOUS
<1> QED
  BY <1>3, <1>4

LEMMA PlainTypes ==
    ASSUME NEW b, Plain(b)
    PROVE  /\ b.query = [f \in DOMAIN b.query |-> b.query[f]]
           /\ Has(b.query, "provider_ids") => b.query.provider_ids \in Seq(Texts) \cup {Null}
           /\ b.snapshot_ids \in Seq(Texts) /\ b.abstain_reasons \in Seq(Texts)
           /\ b.families \in Seq(Families) /\ b.exclusions \in Seq(NormalExclusions)
           /\ \A k \in DOMAIN b.families :
                 b.families[k] \in Families /\ b.families[k].weight_ppm # "1.0"
           /\ \A k \in DOMAIN b.selections : b.selections[k] \in Selections
           /\ \A k \in DOMAIN b.exclusions : b.exclusions[k] \in NormalExclusions
           /\ b.selections # <<>> => 1 \in DOMAIN b.selections
           /\ b.families = [k \in DOMAIN b.families |-> b.families[k]]
           /\ b.exclusions = [k \in DOMAIN b.exclusions |-> b.exclusions[k]]
<1>1. b.exclusions \in Seq(NormalExclusions)
  BY DEF Plain
<1>2. \A k \in DOMAIN b.exclusions : b.exclusions[k] \in NormalExclusions
  BY <1>1
<1>3. ASSUME NEW A, NEW s \in Seq(A) PROVE s = [k \in DOMAIN s |-> s[k]]
  OBVIOUS
<1>4. b.families \in Seq(Families)
  BY Types DEF Plain
<1>5. /\ b.families = [k \in DOMAIN b.families |-> b.families[k]]
      /\ b.exclusions = [k \in DOMAIN b.exclusions |-> b.exclusions[k]]
  BY <1>1, <1>3, <1>4
<1> QED
  BY <1>1, <1>2, <1>5, Types DEF Plain

LEMMA FieldsInOrder ==
    ASSUME NEW b
    PROVE  /\ DOMAIN InOrder(b) = BodyFields /\ InOrder(b) = [f \in BodyFields |-> InOrder(b)[f]]
           /\ InOrder(b).query = QueryInOrder(b.query)
           /\ InOrder(b).families = Arranged(b.families, familyKey)
           /\ InOrder(b).selections =
                 [k \in DOMAIN b.selections |-> SelectionInOrder(b.selections[k])]
           /\ InOrder(b).exclusions = Arranged(b.exclusions, exclusionKey)
           /\ InOrder(b).snapshot_ids = Arranged(b.snapshot_ids, textKey)
           /\ InOrder(b).abstain_reasons = Arranged(b.abstain_reasons, textKey)
           /\ InOrder(b).decided_at = b.decided_at
           /\ InOrder(b).outcome = b.outcome
           /\ InOrder(b).usage_profile = b.usage_profile
  BY DEF InOrder, BodyFields

(***************************************************************************)
(* Both readers put a plain body in order, if its query is valid.          *)
(***************************************************************************)
LEMMA PyNormal ==
    ASSUME NEW b, Plain(b), Py!ValidQuery(b.query)
    PROVE  Py!Normal(b) = InOrder(b)
<1> USE PlainTypes
<1>1. \A f \in DOMAIN b.query : f = "provider_ids" => b.query[f] \in Seq(Texts)
  BY DEF Py!ValidQuery, Py!Has, Has, Py!QueryOptional
<1>2. Py!NormalQuery(b.query) = QueryInOrder(b.query)
  BY <1>1, PySorts DEF Py!NormalQuery, QueryInOrder
<1>3. ASSUME NEW k \in DOMAIN b.selections
      PROVE  Py!NormalSelection(b.selections[k]) = SelectionInOrder(b.selections[k])
  <2>1. b.selections[k].caveats \in Seq(Caveats)
    <3>1. b.selections[k] \in Selections
      OBVIOUS
    <3> QED
      BY <3>1 DEF Selections
  <2>2. Py!SortedBy(b.selections[k].caveats, Py!CaveatKey)
          = Arranged(b.selections[k].caveats, caveatKey)
    BY <2>1, PySorts
  <2> QED
    BY <2>2 DEF Py!NormalSelection, SelectionInOrder
<1>4. [k \in DOMAIN b.selections |-> Py!NormalSelection(b.selections[k])]
        = [k \in DOMAIN b.selections |-> SelectionInOrder(b.selections[k])]
  BY <1>3
<1>5. [k \in DOMAIN b.exclusions |-> Py!NormalExclusion(b.exclusions[k])] = b.exclusions
  <2>1. ASSUME NEW e \in NormalExclusions PROVE Py!NormalExclusion(e) = e
    BY DEF Py!NormalExclusion, NormalExclusions, Exclusions
  <2> QED
    BY <2>1
<1>6. /\ Py!SortedBy(b.families, Py!FamilyKey) = Arranged(b.families, familyKey)
      /\ Py!SortedBy(b.exclusions, Py!ExclusionKey) = Arranged(b.exclusions, exclusionKey)
      /\ Py!SortedBy(b.snapshot_ids, Py!Text) = Arranged(b.snapshot_ids, textKey)
      /\ Py!SortedBy(b.abstain_reasons, Py!Text) = Arranged(b.abstain_reasons, textKey)
  BY PySorts
<1>7. Py!Normal(b) = [b EXCEPT
            !.query        = QueryInOrder(b.query),
            !.snapshot_ids = Arranged(b.snapshot_ids, textKey),
            !.families     = Arranged(b.families, familyKey),
            !.selections   = [k \in DOMAIN b.selections |-> SelectionInOrder(b.selections[k])],
            !.exclusions   = Arranged(b.exclusions, exclusionKey),
            !.abstain_reasons = Arranged(b.abstain_reasons, textKey)]
  <2> DEFINE o == [b EXCEPT !.query      = QueryInOrder(b.query),
                            !.selections = [k \in DOMAIN b.selections |->
                                               SelectionInOrder(b.selections[k])],
                            !.exclusions = b.exclusions]
  <2>1. Py!Objects(b) = o
    BY <1>2, <1>4, <1>5 DEF Py!Objects
  <2>2. b = [f \in BodyFields |-> b[f]]
    BY Types DEF Plain
  <2>3. /\ o = [f \in BodyFields |-> o[f]]
        /\ o.snapshot_ids = b.snapshot_ids /\ o.families = b.families
        /\ o.exclusions = b.exclusions /\ o.abstain_reasons = b.abstain_reasons
        /\ o.query = QueryInOrder(b.query)
        /\ o.selections = [k \in DOMAIN b.selections |-> SelectionInOrder(b.selections[k])]
        /\ o.decided_at = b.decided_at /\ o.outcome = b.outcome
        /\ o.usage_profile = b.usage_profile
    BY <2>2 DEF BodyFields
  <2> HIDE DEF o
  <2>4. Py!Normal(b) = [o EXCEPT !.snapshot_ids = Arranged(b.snapshot_ids, textKey),
                                 !.families     = Arranged(b.families, familyKey),
                                 !.exclusions   = Arranged(b.exclusions, exclusionKey),
                                 !.abstain_reasons = Arranged(b.abstain_reasons, textKey)]
    BY <1>6, <2>1, <2>3 DEF Py!Normal
  <2> DEFINE n == Py!Normal(b)
             e == [b EXCEPT
                      !.query        = QueryInOrder(b.query),
                      !.snapshot_ids = Arranged(b.snapshot_ids, textKey),
                      !.families     = Arranged(b.families, familyKey),
                      !.selections   = [k \in DOMAIN b.selections |->
                                           SelectionInOrder(b.selections[k])],
                      !.exclusions   = Arranged(b.exclusions, exclusionKey),
                      !.abstain_reasons = Arranged(b.abstain_reasons, textKey)]
  <2>5. n = [f \in BodyFields |-> n[f]] /\ e = [f \in BodyFields |-> e[f]]
    BY <2>2, <2>3, <2>4
  <2>6. \A f \in BodyFields : n[f] = e[f]
    <3>1. /\ n.query = o.query /\ n.selections = o.selections /\ n.decided_at = o.decided_at
          /\ n.outcome = o.outcome /\ n.usage_profile = o.usage_profile
          /\ n.snapshot_ids = Arranged(b.snapshot_ids, textKey)
          /\ n.families = Arranged(b.families, familyKey)
          /\ n.exclusions = Arranged(b.exclusions, exclusionKey)
          /\ n.abstain_reasons = Arranged(b.abstain_reasons, textKey)
      BY <2>3, <2>4 DEF BodyFields
    <3>2. /\ e.query = o.query /\ e.selections = o.selections /\ e.decided_at = o.decided_at
          /\ e.outcome = o.outcome /\ e.usage_profile = o.usage_profile
          /\ e.snapshot_ids = Arranged(b.snapshot_ids, textKey)
          /\ e.families = Arranged(b.families, familyKey)
          /\ e.exclusions = Arranged(b.exclusions, exclusionKey)
          /\ e.abstain_reasons = Arranged(b.abstain_reasons, textKey)
      BY <2>2, <2>3 DEF BodyFields
    <3> HIDE DEF n, e
    <3> QED
      BY <3>1, <3>2 DEF BodyFields
  <2> HIDE DEF n, e
  <2>7. n = e
    BY <2>5, <2>6
  <2> QED
    BY <2>7 DEF n, e
<1>8. b = [f \in BodyFields |-> b[f]]
  BY Types DEF Plain
<1> QED
  BY <1>7, <1>8 DEF InOrder, BodyFields

LEMMA TsNormal ==
    ASSUME NEW b, Plain(b), Ts!ParsesQuery(b.query)
    PROVE  Ts!Normalized(b) = InOrder(b)
<1> USE PlainTypes
<1>1. Has(b.query, "provider_ids") => b.query.provider_ids \in Seq(Texts)
  BY DEF Ts!ParsesQuery, Ts!Has, Has, Ts!QueryOptional
<1>2. Ts!ParseQuery(b.query) = QueryInOrder(b.query)
  <2>1. Has(b.query, "provider_ids") =>
           Ts!SortedBy(b.query.provider_ids, Ts!Text) = Arranged(b.query.provider_ids, textKey)
    BY <1>1, TsSorts
  <2>2. b.query = [f \in DOMAIN b.query |-> b.query[f]]
    OBVIOUS
  <2> QED
    BY <2>1, <2>2 DEF Ts!ParseQuery, QueryInOrder, Ts!Has, Has
<1>3. ASSUME NEW k \in DOMAIN b.selections
      PROVE  Ts!ParseSelection(b.selections[k])
                = SelectionInOrder(b.selections[k])
  <2>1. b.selections[k].caveats \in Seq(Caveats)
    <3>1. b.selections[k] \in Selections
      OBVIOUS
    <3> QED
      BY <3>1 DEF Selections
  <2>2. Ts!SortedBy(b.selections[k].caveats, Ts!CaveatKey)
          = Arranged(b.selections[k].caveats, caveatKey)
    BY <2>1, TsSorts
  <2> QED
    BY <2>2 DEF Ts!ParseSelection, SelectionInOrder
<1>4. [k \in DOMAIN b.selections |->
          Ts!ParseSelection(b.selections[k])]
        = [k \in DOMAIN b.selections |-> SelectionInOrder(b.selections[k])]
  BY <1>3
<1>5. [k \in DOMAIN b.families |-> Ts!ParseFamily(b.families[k])] = b.families
  <2>1. ASSUME NEW k \in DOMAIN b.families
        PROVE  Ts!ParseFamily(b.families[k]) = b.families[k]
    <3>1. b.families[k] \in Families /\ b.families[k].weight_ppm # "1.0"
      OBVIOUS
    <3> QED
      BY <3>1 DEF Ts!ParseFamily, Families
  <2> QED
    BY <2>1
<1>6. /\ Ts!SortedBy(b.families, Ts!FamilyKey) = Arranged(b.families, familyKey)
      /\ Ts!SortedBy(b.exclusions, Ts!ExclusionKey) = Arranged(b.exclusions, exclusionKey)
      /\ Ts!SortedBy(b.snapshot_ids, Ts!Text) = Arranged(b.snapshot_ids, textKey)
      /\ Ts!SortedBy(b.abstain_reasons, Ts!Text) = Arranged(b.abstain_reasons, textKey)
  BY TsSorts
<1>7. Ts!Normalized(b) = [b EXCEPT
            !.query        = QueryInOrder(b.query),
            !.snapshot_ids = Arranged(b.snapshot_ids, textKey),
            !.families     = Arranged(b.families, familyKey),
            !.selections   = [k \in DOMAIN b.selections |-> SelectionInOrder(b.selections[k])],
            !.exclusions   = Arranged(b.exclusions, exclusionKey),
            !.abstain_reasons = Arranged(b.abstain_reasons, textKey)]
  <2>1. Ts!Normalized(b) = [b EXCEPT
            !.query        = Ts!ParseQuery(b.query),
            !.snapshot_ids = Ts!SortedBy(b.snapshot_ids, Ts!Text),
            !.families     = Ts!SortedBy([k \in DOMAIN b.families |->
                                             Ts!ParseFamily(b.families[k])], Ts!FamilyKey),
            !.selections   = [k \in DOMAIN b.selections |->
                                 Ts!ParseSelection(b.selections[k])],
            !.exclusions   = Ts!SortedBy(b.exclusions, Ts!ExclusionKey),
            !.abstain_reasons = Ts!SortedBy(b.abstain_reasons, Ts!Text)]
    BY DEF Ts!Normalized
  <2> QED
    BY <1>2, <1>4, <1>5, <1>6, <2>1, Zenon
<1>8. b = [f \in BodyFields |-> b[f]]
  BY Types DEF Plain
<1> QED
  BY <1>7, <1>8 DEF InOrder, BodyFields

(***************************************************************************)
(* Of a plain body the readers ask the same, but for texts that match in   *)
(* Python only.                                                            *)
(***************************************************************************)
LEMMA TwinPatterns ==
    ASSUME NEW b
    PROVE  Ts!MatchesPatterns(b) <=> Py!MatchesPatterns(b) /\ MatchesAlike(b)
<1>1. Null \notin PythonOnly
  BY PortableJsonAssumption
<1>2. Range(b.snapshot_ids) \subseteq SnapshotIds \ PythonOnly <=>
         \A k \in DOMAIN b.snapshot_ids :
            b.snapshot_ids[k] \in SnapshotIds /\ b.snapshot_ids[k] \notin PythonOnly
  BY DEF Range
<1>3. (\A k \in DOMAIN b.families :
          b.families[k].stale_at # Null => b.families[k].stale_at \in Timestamps \ PythonOnly)
        <=> /\ \A k \in DOMAIN b.families : b.families[k].stale_at \in Timestamps \cup {Null}
            /\ \A k \in DOMAIN b.families : b.families[k].stale_at \notin PythonOnly
  BY <1>1
<1>4. Ts!MatchesPatterns(b) <=>
        /\ b.decided_at \in Timestamps /\ b.decided_at \notin PythonOnly
        /\ Range(b.snapshot_ids) \subseteq SnapshotIds \ PythonOnly
        /\ \A k \in DOMAIN b.families :
              b.families[k].stale_at # Null => b.families[k].stale_at \in Timestamps \ PythonOnly
  BY DEF Ts!MatchesPatterns, Ts!Range, Range
<1> QED
  BY <1>2, <1>3, <1>4 DEF Py!MatchesPatterns, MatchesAlike

LEMMA TwinsOfPlain ==
    ASSUME NEW b, Plain(b)
    PROVE  Ts!Parses(b) <=> Py!ValidBody(b) /\ MatchesAlike(b)
<1> USE PlainTypes
<1>1. Ts!ParsesQuery(b.query) <=> Py!ValidQuery(b.query)
  <2>1. /\ Has(b.query, "provider_ids") /\ b.query.provider_ids # Null =>
              (Ts!Unique(b.query.provider_ids, Ts!Text)
                 <=> Py!Unique(b.query.provider_ids, Py!Text))
        /\ \A o, f : (Ts!Has(o, f) <=> Has(o, f)) /\ (Py!Has(o, f) <=> Has(o, f))
    BY PySorts, TsSorts DEF Ts!Has, Py!Has, Has
  <2> QED
    BY <2>1 DEF Ts!ParsesQuery, Py!ValidQuery, Ts!QueryOptional, Py!QueryOptional, Has
<1>2. ASSUME NEW k \in DOMAIN b.selections
      PROVE  Ts!ParsesSelection(b.selections[k]) <=> Py!ValidSelection(b.selections[k])
  <2>1. b.selections[k].caveats \in Seq(Caveats)
    <3>1. b.selections[k] \in Selections
      OBVIOUS
    <3> QED
      BY <3>1 DEF Selections
  <2>2. Ts!Unique(b.selections[k].caveats, Ts!CaveatKey)
           <=> Py!Unique(b.selections[k].caveats, Py!CaveatKey)
    BY <2>1, PySorts, TsSorts
  <2> QED
    BY <2>2 DEF Ts!ParsesSelection, Py!ValidSelection
<1>3. /\ Ts!Unique(b.families, Ts!FamilyKey) <=> Py!Unique(b.families, Py!FamilyKey)
      /\ Ts!Unique(b.snapshot_ids, Ts!Text) <=> Py!Unique(b.snapshot_ids, Py!Text)
      /\ Ts!Unique(b.abstain_reasons, Ts!Text) <=> Py!Unique(b.abstain_reasons, Py!Text)
      /\ Ts!Unique(b.exclusions, Ts!ExclusionKey) <=> Py!Unique(b.exclusions, Py!ExclusionKey)
  BY PySorts, TsSorts
<1>4. Ts!Unique(b.selections, Ts!Configuration) <=> Py!Unique(b.selections, Py!Configuration)
  BY DEF Ts!Unique, Py!Unique, Ts!Configuration, Py!Configuration
<1>5. [k \in DOMAIN b.exclusions |-> Py!NormalExclusion(b.exclusions[k])] = b.exclusions
  <2>1. ASSUME NEW e \in NormalExclusions PROVE Py!NormalExclusion(e) = e
    BY DEF Py!NormalExclusion, NormalExclusions, Exclusions
  <2> QED
    BY <2>1
<1>6. \A k \in DOMAIN b.exclusions : Ts!ParsesExclusion(b.exclusions[k])
  <2>1. ASSUME NEW e \in NormalExclusions PROVE Ts!ParsesExclusion(e)
    BY DEF Ts!ParsesExclusion, Ts!Has, NormalExclusions
  <2> QED
    BY <2>1
<1>7. Ts!DecisionUsageFor(b.query) = Py!UsageFor(b.query)
  BY DEF Ts!DecisionUsageFor, Py!UsageFor, Ts!Has, Py!Has
<1>8. Ts!PickIsValid(b) <=> Py!ValidPick(b)
  <2>1. \A x, y \in Nat : x >= y <=> y <= x
    OBVIOUS
  <2>2. \A k \in DOMAIN b.selections : b.selections[k].ratio \in Nat
    <3>1. \A k \in DOMAIN b.selections : b.selections[k] \in Selections
      OBVIOUS
    <3> QED
      BY <3>1 DEF Selections
  <2>3. b.selections # <<>> => 1 \in DOMAIN b.selections
    OBVIOUS
  <2>4. {b.selections[k] : k \in DOMAIN b.selections} # {} <=> b.selections # <<>>
    <3>1. b.selections = <<>> => DOMAIN b.selections = {}
      OBVIOUS
    <3> DEFINE rows == {b.selections[k] : k \in DOMAIN b.selections}
    <3>2. b.selections = <<>> => rows = {}
      BY <3>1
    <3>3. b.selections # <<>> => b.selections[1] \in rows
      BY <2>3
    <3> HIDE DEF rows
    <3>4. rows # {} <=> b.selections # <<>>
      BY <3>2, <3>3
    <3> QED
      BY <3>4 DEF rows
  <2>5. \A k \in DOMAIN b.selections :
           Ts!Admits(b.query, b.selections[k]) <=>
              LET s == b.selections[k]
              IN  /\ Py!Has(b.query, "reasoning_effort") =>
                         s.reasoning_effort = b.query.reasoning_effort
                  /\ Py!Has(b.query, "api") => s.api = b.query.api
                  /\ Py!Has(b.query, "provider_ids") =>
                         \E p \in DOMAIN b.query.provider_ids :
                             b.query.provider_ids[p] = s.provider_id
    BY DEF Ts!Admits, Ts!Has, Py!Has
  <2>6. b.selections # <<>> =>
        (Py!PickIsBest(b) <=>
          /\ b.query.objective = "lowest_cost_within_top_set" =>
                /\ \A k \in DOMAIN b.selections : b.selections[k].cost # Null
                /\ \A k \in DOMAIN b.selections : b.selections[1].cost <= b.selections[k].cost
          /\ b.query.objective # "lowest_cost_within_top_set" =>
                \A k \in DOMAIN b.selections : b.selections[1].ratio >= b.selections[k].ratio)
    BY <2>1, <2>2, <2>3 DEF Py!PickIsBest, Py!Costs
  <2> QED
    BY <2>3, <2>4, <2>5, <2>6 DEF Ts!PickIsValid, Py!ValidPick
<1> QED
  BY <1>1, <1>2, <1>3, <1>4, <1>5, <1>6, <1>7, <1>8, TwinPatterns DEF Ts!Parses, Py!ValidBody
-------------------------------------------------------------------------------
(* Canonical bodies *)

(***************************************************************************)
(* What every receipt that was read or created has as its body: one that   *)
(* is valid and that reading leaves as it is.                              *)
(***************************************************************************)
Valid(b) == Plain(b) /\ Py!ValidBody(b)

Canonical(b) == Valid(b) /\ InOrder(b) = b

Settled(s, A, key) == s \in Seq(A) /\ Distinct(s, key) /\ Arranged(s, key) = s

LEMMA SortingSettles ==
    ASSUME NEW A, NEW key, Forgets(A, key), NEW s \in Seq(A), Distinct(s, key)
    PROVE  /\ Settled(Arranged(s, key), A, key)
           /\ Range(Arranged(s, key)) = Range(s)
           /\ Arranged(s, key) = <<>> <=> s = <<>>
  BY DEF Forgets, Settled

LEMMA SettledIsItsElements ==
    ASSUME NEW A, NEW key, Forgets(A, key), NEW s, NEW t,
           Settled(s, A, key), Settled(t, A, key), Range(s) = Range(t)
    PROVE  s = t
  BY DEF Forgets, Settled

LEMMA CaveatsStay ==
    ASSUME NEW s \in Selections, Py!ValidSelection(s)
    PROVE  /\ Settled(SelectionInOrder(s).caveats, Caveats, caveatKey)
           /\ SelectionInOrder(s) \in Selections
           /\ Py!ValidSelection(SelectionInOrder(s))
           /\ SelectionInOrder(SelectionInOrder(s)) = SelectionInOrder(s)
           /\ \A f \in {"serving_offer_id", "reasoning_effort", "provider_id", "api", "ratio",
                         "cost", "multiplier"} : SelectionInOrder(s)[f] = s[f]
<1> DEFINE t == SelectionInOrder(s)
           c == s.caveats
           a == Arranged(s.caveats, caveatKey)
<1>1. c \in Seq(Caveats) /\ Distinct(c, caveatKey)
  <2>1. c \in Seq(Caveats)
    BY DEF Selections
  <2>2. Py!Unique(c, Py!CaveatKey)
    BY DEF Py!ValidSelection
  <2> QED
    BY <2>1, <2>2, PySorts
<1>2. Settled(a, Caveats, caveatKey) /\ Range(a) = Range(c)
  BY <1>1, SetsAreSorted, SortingSettles
<1>3. a \in Seq(Caveats)
  BY <1>2 DEF Settled
<1>4. /\ t \in Selections /\ t.caveats = a
      /\ \A f \in {"serving_offer_id", "reasoning_effort", "provider_id", "api", "ratio",
                    "cost", "multiplier"} : t[f] = s[f]
  BY <1>3 DEF Selections, SelectionInOrder
<1>5. SelectionInOrder(t) = t
  <2>1. Arranged(t.caveats, caveatKey) = t.caveats
    BY <1>2, <1>4 DEF Settled
  <2> QED
    BY <1>4, <2>1 DEF SelectionInOrder, Selections
<1>6. Py!ValidSelection(t)
  <2>1. Py!Unique(a, Py!CaveatKey)
    BY <1>2, <1>3, PySorts DEF Settled
  <2>2. /\ \A k \in DOMAIN a : \E j \in DOMAIN c : c[j] = a[k]
        /\ \A k \in DOMAIN c : \E j \in DOMAIN a : a[j] = c[k]
    <3>1. /\ \A k \in DOMAIN a : a[k] \in Range(c)
          /\ \A k \in DOMAIN c : c[k] \in Range(a)
      BY <1>2 DEF Range
    <3> QED
      BY <3>1 DEF Range
  <2> HIDE DEF a, t
  <2>3. /\ (\E k \in DOMAIN a : a[k].code = "cost_unmeasured")
              <=> (\E k \in DOMAIN c : c[k].code = "cost_unmeasured")
        /\ \A k \in DOMAIN a : a[k].code = "effort_substituted" =>
              a[k].measured_effort # s.reasoning_effort
    BY <2>2 DEF Py!ValidSelection
  <2> QED
    BY <1>4, <2>1, <2>3 DEF Py!ValidSelection
<1> QED
  BY <1>2, <1>4, <1>5, <1>6

LEMMA QueryStays ==
    ASSUME NEW q, IsQuery(q), Py!ValidQuery(q)
    PROVE  /\ DOMAIN QueryInOrder(q) = DOMAIN q
           /\ \A f \in DOMAIN q : f # "provider_ids" => QueryInOrder(q)[f] = q[f]
           /\ Has(q, "provider_ids") =>
                 /\ Settled(QueryInOrder(q).provider_ids, Texts, textKey)
                 /\ Range(QueryInOrder(q).provider_ids) = Range(q.provider_ids)
           /\ IsQuery(QueryInOrder(q))
           /\ Py!ValidQuery(QueryInOrder(q))
           /\ QueryInOrder(QueryInOrder(q)) = QueryInOrder(q)
<1> DEFINE r == QueryInOrder(q)
<1>1. /\ DOMAIN r = DOMAIN q /\ r = [f \in DOMAIN r |-> r[f]]
      /\ \A f \in DOMAIN q : f # "provider_ids" => r[f] = q[f]
  BY DEF QueryInOrder
<1>2. ASSUME Has(q, "provider_ids")
      PROVE  /\ r.provider_ids = Arranged(q.provider_ids, textKey)
             /\ Settled(r.provider_ids, Texts, textKey)
             /\ Range(r.provider_ids) = Range(q.provider_ids)
             /\ r.provider_ids # <<>> /\ r.provider_ids # Null
             /\ Py!Unique(r.provider_ids, Py!Text)
  <2>1. "provider_ids" \in DOMAIN q
    BY <1>2 DEF Has
  <2>2. q.provider_ids # Null /\ q.provider_ids # <<>> /\ Py!Unique(q.provider_ids, Py!Text)
    BY <2>1 DEF Py!ValidQuery, Py!QueryOptional, Py!Has
  <2>3. q.provider_ids \in Seq(Texts)
    BY <1>2, <2>2 DEF IsQuery
  <2>4. Distinct(q.provider_ids, textKey)
    BY <2>2, <2>3, PySorts
  <2>5. r.provider_ids = Arranged(q.provider_ids, textKey)
    BY <2>1 DEF QueryInOrder
  <2>6. /\ Settled(r.provider_ids, Texts, textKey)
        /\ Range(r.provider_ids) = Range(q.provider_ids)
        /\ r.provider_ids # <<>>
    BY <2>2, <2>3, <2>4, <2>5, SetsAreSorted, SortingSettles
  <2>7. r.provider_ids \in Seq(Texts) /\ Distinct(r.provider_ids, textKey)
    BY <2>6 DEF Settled
  <2>8. Py!Unique(r.provider_ids, Py!Text)
    BY <2>7, PySorts
  <2>9. r.provider_ids # Null
    BY <2>7, PortableJsonAssumption DEF Texts
  <2> QED
    BY <2>5, <2>6, <2>8, <2>9
<1> HIDE DEF r
<1>3. IsQuery(r)
  BY <1>1, <1>2 DEF IsQuery, Settled, Has
<1>4. Py!ValidQuery(r)
  BY <1>1, <1>2 DEF Py!ValidQuery, Py!QueryOptional, Py!Has, Has
<1>5. QueryInOrder(r) = r
  BY <1>1, <1>2 DEF QueryInOrder, Settled, Has
<1> QED
  BY <1>1, <1>2, <1>3, <1>4, <1>5 DEF r

(***************************************************************************)
(* The sets of a valid body are lists without duplicates.                  *)
(***************************************************************************)
LEMMA SetsOfValid ==
    ASSUME NEW b, Valid(b)
    PROVE  /\ b.families \in Seq(Families) /\ Distinct(b.families, familyKey)
           /\ b.exclusions \in Seq(NormalExclusions) /\ Distinct(b.exclusions, exclusionKey)
           /\ b.snapshot_ids \in Seq(Texts) /\ Distinct(b.snapshot_ids, textKey)
           /\ b.abstain_reasons \in Seq(Texts) /\ Distinct(b.abstain_reasons, textKey)
<1>1. /\ b.families \in Seq(Families) /\ b.exclusions \in Seq(NormalExclusions)
      /\ b.snapshot_ids \in Seq(Texts) /\ b.abstain_reasons \in Seq(Texts)
  BY PlainTypes DEF Valid
<1>2. [k \in DOMAIN b.exclusions |-> Py!NormalExclusion(b.exclusions[k])] = b.exclusions
  <2>1. ASSUME NEW e \in NormalExclusions PROVE Py!NormalExclusion(e) = e
    BY DEF Py!NormalExclusion, NormalExclusions, Exclusions
  <2> QED
    BY <2>1, PlainTypes DEF Valid
<1>3. /\ Py!Unique(b.families, Py!FamilyKey) /\ Py!Unique(b.exclusions, Py!ExclusionKey)
      /\ Py!Unique(b.snapshot_ids, Py!Text) /\ Py!Unique(b.abstain_reasons, Py!Text)
  BY <1>2 DEF Valid, Py!ValidBody
<1> QED
  BY <1>1, <1>3, PySorts

LEMMA OrderIsCanonical ==
    ASSUME NEW b, Valid(b)
    PROVE  Canonical(InOrder(b))
<1> DEFINE c == InOrder(b)
<1>1. /\ Settled(c.families, Families, familyKey) /\ Range(c.families) = Range(b.families)
      /\ Settled(c.exclusions, NormalExclusions, exclusionKey)
      /\ Settled(c.snapshot_ids, Texts, textKey)
      /\ Range(c.snapshot_ids) = Range(b.snapshot_ids)
      /\ c.snapshot_ids = <<>> <=> b.snapshot_ids = <<>>
      /\ Settled(c.abstain_reasons, Texts, textKey)
      /\ c.abstain_reasons = <<>> <=> b.abstain_reasons = <<>>
  <2>1. /\ c.families = Arranged(b.families, familyKey)
        /\ c.exclusions = Arranged(b.exclusions, exclusionKey)
        /\ c.snapshot_ids = Arranged(b.snapshot_ids, textKey)
        /\ c.abstain_reasons = Arranged(b.abstain_reasons, textKey)
    BY FieldsInOrder
  <2> HIDE DEF c
  <2>2. Settled(c.families, Families, familyKey) /\ Range(c.families) = Range(b.families)
    BY <2>1, SetsOfValid, SetsAreSorted, SortingSettles
  <2>3. Settled(c.exclusions, NormalExclusions, exclusionKey)
    BY <2>1, SetsOfValid, SetsAreSorted, SortingSettles
  <2>4. /\ Settled(c.snapshot_ids, Texts, textKey)
        /\ Range(c.snapshot_ids) = Range(b.snapshot_ids)
        /\ c.snapshot_ids = <<>> <=> b.snapshot_ids = <<>>
    BY <2>1, SetsOfValid, SetsAreSorted, SortingSettles
  <2>5. /\ Settled(c.abstain_reasons, Texts, textKey)
        /\ c.abstain_reasons = <<>> <=> b.abstain_reasons = <<>>
    BY <2>1, SetsOfValid, SetsAreSorted, SortingSettles
  <2> QED
    BY <2>2, <2>3, <2>4, <2>5
<1>2. IsQuery(b.query) /\ Py!ValidQuery(b.query)
  BY DEF Valid, Plain, AreFields, Fits, BodyFields, Py!ValidBody
<1>3. /\ DOMAIN c.query = DOMAIN b.query
      /\ \A f \in DOMAIN b.query : f # "provider_ids" => c.query[f] = b.query[f]
      /\ Has(b.query, "provider_ids") =>
            Range(c.query.provider_ids) = Range(b.query.provider_ids)
      /\ IsQuery(c.query)
      /\ Py!ValidQuery(c.query)
      /\ QueryInOrder(c.query) = c.query
  <2>1. c.query = QueryInOrder(b.query)
    BY FieldsInOrder
  <2> HIDE DEF c
  <2>2. \A q : q = b.query =>
            /\ DOMAIN QueryInOrder(q) = DOMAIN q
            /\ \A f \in DOMAIN q : f # "provider_ids" => QueryInOrder(q)[f] = q[f]
            /\ Has(q, "provider_ids") =>
                  Range(QueryInOrder(q).provider_ids) = Range(q.provider_ids)
            /\ IsQuery(QueryInOrder(q))
            /\ Py!ValidQuery(QueryInOrder(q))
            /\ QueryInOrder(QueryInOrder(q)) = QueryInOrder(q)
    BY <1>2, QueryStays
  <2> QED
    BY <2>1, <2>2
<1>4. /\ DOMAIN c.selections = DOMAIN b.selections
      /\ Len(c.selections) = Len(b.selections)
      /\ c.selections \in Seq(Selections)
      /\ \A k \in DOMAIN b.selections :
            /\ c.selections[k] = SelectionInOrder(b.selections[k])
            /\ Py!ValidSelection(c.selections[k])
            /\ SelectionInOrder(c.selections[k]) = c.selections[k]
            /\ \A f \in {"serving_offer_id", "reasoning_effort", "provider_id", "api", "ratio",
                          "cost", "multiplier"} : c.selections[k][f] = b.selections[k][f]
  <2>1. /\ b.selections \in Seq(Selections)
        /\ \A k \in DOMAIN b.selections :
              b.selections[k] \in Selections /\ Py!ValidSelection(b.selections[k])
    BY Types, PlainTypes DEF Valid, Plain, Py!ValidBody
  <2>2. c.selections = [k \in DOMAIN b.selections |-> SelectionInOrder(b.selections[k])]
    BY FieldsInOrder
  <2>3. \A k \in DOMAIN b.selections :
            /\ SelectionInOrder(b.selections[k]) \in Selections
            /\ Py!ValidSelection(SelectionInOrder(b.selections[k]))
            /\ SelectionInOrder(SelectionInOrder(b.selections[k]))
                  = SelectionInOrder(b.selections[k])
            /\ \A f \in {"serving_offer_id", "reasoning_effort", "provider_id", "api", "ratio",
                          "cost", "multiplier"} :
                  SelectionInOrder(b.selections[k])[f] = b.selections[k][f]
    BY <2>1, CaveatsStay
  <2>4. /\ DOMAIN c.selections = DOMAIN b.selections
        /\ Len(c.selections) = Len(b.selections)
        /\ c.selections \in Seq(Selections)
    BY <2>1, <2>2, <2>3
  <2> QED
    BY <2>2, <2>3, <2>4
<1>5. /\ DOMAIN c = BodyFields /\ c = [f \in BodyFields |-> c[f]]
      /\ c.outcome = b.outcome /\ c.usage_profile = b.usage_profile
      /\ c.decided_at = b.decided_at
  BY FieldsInOrder
<1> HIDE DEF c
<1>6. Plain(c)
  <2>1. /\ c.families \in Seq(Families) /\ c.exclusions \in Seq(NormalExclusions)
        /\ c.snapshot_ids \in Seq(Texts) /\ c.abstain_reasons \in Seq(Texts)
    BY <1>1 DEF Settled
  <2>2. c.exclusions \in Seq(Exclusions)
    <3>1. \A A, B : A \subseteq B => Seq(A) \subseteq Seq(B)
      OBVIOUS
    <3>2. NormalExclusions \subseteq Exclusions
      BY DEF NormalExclusions
    <3> QED
      BY <2>1, <3>1, <3>2
  <2>3. AreFields(c, BodyFields)
    BY <1>3, <1>4, <1>5, <2>1, <2>2 DEF AreFields, Fits, BodyFields
  <2>4. \A k \in DOMAIN c.families : c.families[k].weight_ppm # "1.0"
    <3>1. \A k \in DOMAIN c.families : \E j \in DOMAIN b.families : b.families[j] = c.families[k]
      <4>1. \A k \in DOMAIN c.families : c.families[k] \in Range(b.families)
        BY <1>1 DEF Range
      <4> QED
        BY <4>1 DEF Range
    <3>2. \A j \in DOMAIN b.families : b.families[j].weight_ppm # "1.0"
      BY DEF Valid, Plain
    <3> QED
      BY <3>1, <3>2
  <2> QED
    BY <2>1, <2>3, <2>4 DEF Plain
<1>7. Py!ValidBody(c)
  <2>1. /\ Py!Unique(c.families, Py!FamilyKey)
        /\ Py!Unique(c.exclusions, Py!ExclusionKey)
        /\ Py!Unique(c.snapshot_ids, Py!Text)
        /\ Py!Unique(c.abstain_reasons, Py!Text)
    BY <1>1, PySorts DEF Settled
  <2>2. [k \in DOMAIN c.exclusions |-> Py!NormalExclusion(c.exclusions[k])] = c.exclusions
    <3>1. ASSUME NEW e \in NormalExclusions PROVE Py!NormalExclusion(e) = e
      BY DEF Py!NormalExclusion, NormalExclusions, Exclusions
    <3> QED
      BY <1>6, <3>1, PlainTypes
  <2>3. Py!Unique(c.selections, Py!Configuration)
    BY <1>4 DEF Valid, Py!ValidBody, Py!Unique, Py!Configuration
  <2>4. c.usage_profile = Py!UsageFor(c.query)
    BY <1>3, <1>5 DEF Valid, Py!ValidBody, Py!UsageFor, Py!Has
  <2>5. b.outcome = "pick" => Py!ValidPick(c)
    <3> SUFFICES ASSUME Py!ValidPick(b) PROVE Py!ValidPick(c)
      BY DEF Valid, Py!ValidBody
    <3>1. b.selections # <<>> /\ b.abstain_reasons = <<>> /\ b.snapshot_ids # <<>>
      BY DEF Py!ValidPick
    <3>2. 1 \in DOMAIN b.selections
      BY <3>1, PlainTypes DEF Valid
    <3>3. c.selections # <<>> /\ c.abstain_reasons = <<>> /\ c.snapshot_ids # <<>>
      BY <1>1, <1>4, <3>1, <3>2
    <3>4. Py!PickIsBest(c)
      <4>1. Py!Costs(c) = Py!Costs(b)
        BY <1>4 DEF Py!Costs
      <4>2. Py!PickIsBest(b)
        BY DEF Py!ValidPick
      <4>3. /\ c.query.objective = b.query.objective
            /\ c.selections[1].cost = b.selections[1].cost
            /\ c.selections[1].ratio = b.selections[1].ratio
        BY <1>2, <1>3, <1>4, <3>2 DEF IsQuery, Has
      <4> QED
        BY <1>4, <4>1, <4>2, <4>3 DEF Py!PickIsBest
    <3>5. Has(b.query, "provider_ids") =>
             \A x : (\E p \in DOMAIN c.query.provider_ids : c.query.provider_ids[p] = x)
                      <=> (\E p \in DOMAIN b.query.provider_ids : b.query.provider_ids[p] = x)
      BY <1>3 DEF Range
    <3>6. \A k \in DOMAIN c.selections :
             LET s == c.selections[k]
             IN  /\ Py!Has(c.query, "reasoning_effort") =>
                        s.reasoning_effort = c.query.reasoning_effort
                 /\ Py!Has(c.query, "api") => s.api = c.query.api
                 /\ Py!Has(c.query, "provider_ids") =>
                        \E p \in DOMAIN c.query.provider_ids :
                            c.query.provider_ids[p] = s.provider_id
      <4> SUFFICES ASSUME NEW k \in DOMAIN b.selections
                   PROVE  LET s == c.selections[k]
                          IN  /\ Py!Has(c.query, "reasoning_effort") =>
                                     s.reasoning_effort = c.query.reasoning_effort
                              /\ Py!Has(c.query, "api") => s.api = c.query.api
                              /\ Py!Has(c.query, "provider_ids") =>
                                     \E p \in DOMAIN c.query.provider_ids :
                                         c.query.provider_ids[p] = s.provider_id
        BY <1>4
      <4>1. /\ c.selections[k].reasoning_effort = b.selections[k].reasoning_effort
            /\ c.selections[k].api = b.selections[k].api
            /\ c.selections[k].provider_id = b.selections[k].provider_id
        BY <1>4
      <4>2. /\ Py!Has(b.query, "reasoning_effort") =>
                   b.selections[k].reasoning_effort = b.query.reasoning_effort
            /\ Py!Has(b.query, "api") => b.selections[k].api = b.query.api
            /\ Py!Has(b.query, "provider_ids") =>
                   \E p \in DOMAIN b.query.provider_ids :
                       b.query.provider_ids[p] = b.selections[k].provider_id
        BY DEF Py!ValidPick
      <4> QED
        BY <1>3, <3>5, <4>1, <4>2 DEF Py!Has, Has
    <3> QED
      BY <3>3, <3>4, <3>6 DEF Py!ValidPick
  <2>6. b.outcome # "pick" => c.selections = <<>> /\ c.abstain_reasons # <<>>
    BY <1>1, <1>4 DEF Valid, Py!ValidBody
  <2>7. Py!MatchesPatterns(c)
    <3>1. Py!MatchesPatterns(b)
      BY DEF Valid, Py!ValidBody
    <3>2. \A s, t : Range(s) = Range(t) => \A k \in DOMAIN s : \E j \in DOMAIN t : t[j] = s[k]
      <4> SUFFICES ASSUME NEW s, NEW t, Range(s) = Range(t), NEW k \in DOMAIN s
                   PROVE  \E j \in DOMAIN t : t[j] = s[k]
        OBVIOUS
      <4>1. s[k] \in Range(t)
        BY DEF Range
      <4> QED
        BY <4>1 DEF Range
    <3>3. /\ \A k \in DOMAIN c.snapshot_ids :
                \E j \in DOMAIN b.snapshot_ids : b.snapshot_ids[j] = c.snapshot_ids[k]
          /\ \A k \in DOMAIN c.families : \E j \in DOMAIN b.families : b.families[j] = c.families[k]
      BY <1>1, <3>2
    <3> QED
      BY <1>5, <3>1, <3>3 DEF Py!MatchesPatterns
  <2> QED
    BY <1>3, <1>4, <1>5, <1>6, <2>1, <2>2, <2>3, <2>4, <2>5, <2>6, <2>7 DEF Py!ValidBody, Plain
<1>8. InOrder(c) = c
  <2>1. [k \in DOMAIN c.selections |-> SelectionInOrder(c.selections[k])] = c.selections
    BY <1>4
  <2>2. /\ QueryInOrder(c.query) = c.query
        /\ Arranged(c.families, familyKey) = c.families
        /\ Arranged(c.exclusions, exclusionKey) = c.exclusions
        /\ Arranged(c.snapshot_ids, textKey) = c.snapshot_ids
        /\ Arranged(c.abstain_reasons, textKey) = c.abstain_reasons
    BY <1>1, <1>3 DEF Settled
  <2>3. \A f \in BodyFields : InOrder(c)[f] = c[f]
    BY <2>1, <2>2 DEF InOrder, BodyFields
  <2>4. InOrder(c) = [f \in BodyFields |-> InOrder(c)[f]]
    BY FieldsInOrder
  <2> QED
    BY <1>5, <2>3, <2>4
<1> QED
  BY <1>6, <1>7, <1>8 DEF Canonical, Valid, c

(***************************************************************************)
(* A canonical body is told by what it says.                               *)
(***************************************************************************)
LEMMA CanonicalSets ==
    ASSUME NEW c, Canonical(c)
    PROVE  /\ Settled(c.families, Families, familyKey)
           /\ Settled(c.exclusions, NormalExclusions, exclusionKey)
           /\ Settled(c.snapshot_ids, Texts, textKey)
           /\ Settled(c.abstain_reasons, Texts, textKey)
           /\ Has(c.query, "provider_ids") => Settled(c.query.provider_ids, Texts, textKey)
           /\ \A k \in DOMAIN c.selections :
                 /\ Settled(c.selections[k].caveats, Caveats, caveatKey)
                 /\ c.selections[k] \in Selections
           /\ c = [f \in BodyFields |-> c[f]]
           /\ c.query = [f \in DOMAIN c.query |-> c.query[f]]
           /\ c.selections \in Seq(Selections)
<1>1. /\ InOrder(c).families = c.families /\ InOrder(c).exclusions = c.exclusions
      /\ InOrder(c).snapshot_ids = c.snapshot_ids
      /\ InOrder(c).abstain_reasons = c.abstain_reasons
      /\ InOrder(c).query = c.query /\ InOrder(c).selections = c.selections
  BY DEF Canonical
<1>2. /\ Arranged(c.families, familyKey) = c.families
      /\ Arranged(c.exclusions, exclusionKey) = c.exclusions
      /\ Arranged(c.snapshot_ids, textKey) = c.snapshot_ids
      /\ Arranged(c.abstain_reasons, textKey) = c.abstain_reasons
      /\ QueryInOrder(c.query) = c.query
      /\ c.selections = [k \in DOMAIN c.selections |-> SelectionInOrder(c.selections[k])]
  BY <1>1, FieldsInOrder
<1>3. /\ Settled(c.families, Families, familyKey)
      /\ Settled(c.exclusions, NormalExclusions, exclusionKey)
      /\ Settled(c.snapshot_ids, Texts, textKey)
      /\ Settled(c.abstain_reasons, Texts, textKey)
  BY <1>2, SetsOfValid DEF Canonical, Settled
<1>4. /\ IsQuery(c.query) /\ Py!ValidQuery(c.query)
      /\ c = [f \in BodyFields |-> c[f]] /\ c.selections \in Seq(Selections)
      /\ \A k \in DOMAIN c.selections : Py!ValidSelection(c.selections[k])
  BY DEF Canonical, Valid, Plain, AreFields, Fits, BodyFields, Py!ValidBody
<1>5. Has(c.query, "provider_ids") => Settled(c.query.provider_ids, Texts, textKey)
  <2>1. Has(c.query, "provider_ids") =>
           Settled(QueryInOrder(c.query).provider_ids, Texts, textKey)
    BY <1>4, QueryStays
  <2> QED
    BY <1>2, <2>1
<1>6. ASSUME NEW k \in DOMAIN c.selections
      PROVE  /\ Settled(c.selections[k].caveats, Caveats, caveatKey)
             /\ c.selections[k] \in Selections
  <2>1. c.selections[k] \in Selections
    BY PlainTypes DEF Canonical, Valid
  <2>2. Settled(SelectionInOrder(c.selections[k]).caveats, Caveats, caveatKey)
    BY <1>4, <2>1, CaveatsStay
  <2>3. SelectionInOrder(c.selections[k]) = c.selections[k]
    BY <1>2
  <2> QED
    BY <2>1, <2>2, <2>3
<1> QED
  BY <1>3, <1>4, <1>5, <1>6 DEF IsQuery

LEMMA SayingIdentifies ==
    ASSUME NEW b, NEW c, Canonical(b), Canonical(c), Says(b) = Says(c)
    PROVE  b = c
<1>1. /\ b = [f \in BodyFields |-> b[f]] /\ DOMAIN b = BodyFields
      /\ c = [f \in BodyFields |-> c[f]] /\ DOMAIN c = BodyFields
  <2>1. \A d : d = [f \in BodyFields |-> d[f]] => DOMAIN d = BodyFields
    OBVIOUS
  <2> QED
    BY <2>1, CanonicalSets
<1>2. /\ Says(b).query = QuerySays(b.query) /\ Says(c).query = QuerySays(c.query)
      /\ Says(b).selections = [k \in DOMAIN b.selections |-> SelectionSays(b.selections[k])]
      /\ Says(c).selections = [k \in DOMAIN c.selections |-> SelectionSays(c.selections[k])]
      /\ \A f \in {"snapshot_ids", "families", "exclusions", "abstain_reasons"} :
            Says(b)[f] = Range(b[f]) /\ Says(c)[f] = Range(c[f])
      /\ \A f \in {"decided_at", "outcome", "usage_profile"} :
            Says(b)[f] = b[f] /\ Says(c)[f] = c[f]
  <2>1. ASSUME NEW d, DOMAIN d = BodyFields
        PROVE  /\ Says(d).query = QuerySays(d.query)
               /\ Says(d).selections =
                     [k \in DOMAIN d.selections |-> SelectionSays(d.selections[k])]
               /\ \A f \in {"snapshot_ids", "families", "exclusions", "abstain_reasons"} :
                     Says(d)[f] = Range(d[f])
               /\ \A f \in {"decided_at", "outcome", "usage_profile"} : Says(d)[f] = d[f]
    BY <2>1 DEF Says, BodyFields
  <2> QED
    BY <1>1, <2>1
<1>3. /\ b.decided_at = c.decided_at /\ b.outcome = c.outcome
      /\ b.usage_profile = c.usage_profile
      /\ Range(b.snapshot_ids) = Range(c.snapshot_ids)
      /\ Range(b.families) = Range(c.families)
      /\ Range(b.exclusions) = Range(c.exclusions)
      /\ Range(b.abstain_reasons) = Range(c.abstain_reasons)
  BY <1>1, <1>2
<1>4. /\ b.snapshot_ids = c.snapshot_ids /\ b.families = c.families
      /\ b.exclusions = c.exclusions /\ b.abstain_reasons = c.abstain_reasons
  BY <1>3, CanonicalSets, SetsAreSorted, SettledIsItsElements
<1>5. b.query = c.query
  <2>1. QuerySays(b.query) = QuerySays(c.query)
    BY <1>1, <1>2
  <2>2. \A q : /\ DOMAIN QuerySays(q) = DOMAIN q
               /\ \A f \in DOMAIN q : f # "provider_ids" => QuerySays(q)[f] = q[f]
               /\ Has(q, "provider_ids") => QuerySays(q).provider_ids = Range(q.provider_ids)
    BY DEF Has, QuerySays
  <2>3. /\ DOMAIN b.query = DOMAIN c.query
        /\ \A f \in DOMAIN b.query : f # "provider_ids" => b.query[f] = c.query[f]
        /\ Has(b.query, "provider_ids") =>
              Has(c.query, "provider_ids")
                /\ Range(b.query.provider_ids) = Range(c.query.provider_ids)
    BY <2>1, <2>2 DEF Has
  <2>4. Has(b.query, "provider_ids") => b.query.provider_ids = c.query.provider_ids
    <3> SUFFICES ASSUME Has(b.query, "provider_ids")
                 PROVE  b.query.provider_ids = c.query.provider_ids
      OBVIOUS
    <3>1. /\ Settled(b.query.provider_ids, Texts, textKey)
          /\ Settled(c.query.provider_ids, Texts, textKey)
      BY <2>3, CanonicalSets
    <3> QED
      BY <2>3, <3>1, SetsAreSorted, SettledIsItsElements
  <2>5. /\ b.query = [f \in DOMAIN b.query |-> b.query[f]]
        /\ c.query = [f \in DOMAIN c.query |-> c.query[f]]
    BY CanonicalSets
  <2>6. \A f \in DOMAIN b.query : b.query[f] = c.query[f]
    BY <2>3, <2>4 DEF Has
  <2> QED
    BY <2>3, <2>5, <2>6
<1>6. b.selections = c.selections
  <2>1. [k \in DOMAIN b.selections |-> SelectionSays(b.selections[k])]
           = [k \in DOMAIN c.selections |-> SelectionSays(c.selections[k])]
    BY <1>1, <1>2
  <2>2. DOMAIN b.selections = DOMAIN c.selections
    BY <2>1
  <2>3. ASSUME NEW k \in DOMAIN b.selections
        PROVE  b.selections[k] = c.selections[k]
    <3> DEFINE s == b.selections[k]
               t == c.selections[k]
    <3>1. /\ s \in Selections /\ Settled(s.caveats, Caveats, caveatKey)
          /\ t \in Selections /\ Settled(t.caveats, Caveats, caveatKey)
      BY <2>2, CanonicalSets
    <3>2. SelectionSays(s) = SelectionSays(t)
      BY <2>1, <2>2
    <3>3. [s EXCEPT !.caveats = Range(s.caveats)] = [t EXCEPT !.caveats = Range(t.caveats)]
      BY <3>2 DEF SelectionSays
    <3> HIDE DEF s, t
    <3>4. /\ s.serving_offer_id = t.serving_offer_id /\ s.api = t.api /\ s.ratio = t.ratio
          /\ s.reasoning_effort = t.reasoning_effort /\ s.provider_id = t.provider_id
          /\ s.cost = t.cost /\ s.multiplier = t.multiplier
          /\ Range(s.caveats) = Range(t.caveats)
      <4> DEFINE u == [s EXCEPT !.caveats = Range(s.caveats)]
                 v == [t EXCEPT !.caveats = Range(t.caveats)]
      <4>1. ASSUME NEW r \in Selections, NEW x
            PROVE  LET w == [r EXCEPT !.caveats = x]
                   IN  /\ w.serving_offer_id = r.serving_offer_id /\ w.api = r.api
                       /\ w.ratio = r.ratio /\ w.reasoning_effort = r.reasoning_effort
                       /\ w.provider_id = r.provider_id /\ w.cost = r.cost
                       /\ w.multiplier = r.multiplier /\ w.caveats = x
        BY DEF Selections
      <4>2. /\ u.serving_offer_id = s.serving_offer_id /\ u.api = s.api
            /\ u.ratio = s.ratio /\ u.reasoning_effort = s.reasoning_effort
            /\ u.provider_id = s.provider_id /\ u.cost = s.cost
            /\ u.multiplier = s.multiplier /\ u.caveats = Range(s.caveats)
        BY <3>1, <4>1, Zenon
      <4>3. /\ v.serving_offer_id = t.serving_offer_id /\ v.api = t.api
            /\ v.ratio = t.ratio /\ v.reasoning_effort = t.reasoning_effort
            /\ v.provider_id = t.provider_id /\ v.cost = t.cost
            /\ v.multiplier = t.multiplier /\ v.caveats = Range(t.caveats)
        BY <3>1, <4>1, Zenon
      <4>4. u = v
        BY <3>3
      <4> HIDE DEF u, v
      <4> QED
        BY <4>2, <4>3, <4>4
    <3>5. s.caveats = t.caveats
      BY <3>1, <3>4, SetsAreSorted, SettledIsItsElements
    <3>6. s = t
      BY <3>1, <3>4, <3>5 DEF Selections
    <3> QED
      BY <3>6 DEF s, t
  <2>4. \A A : \A s, t \in Seq(A) :
           DOMAIN s = DOMAIN t /\ (\A k \in DOMAIN s : s[k] = t[k]) => s = t
    OBVIOUS
  <2>5. b.selections \in Seq(Selections) /\ c.selections \in Seq(Selections)
    BY CanonicalSets
  <2> QED
    BY <2>2, <2>3, <2>4, <2>5
<1>7. \A f \in BodyFields : b[f] = c[f]
  BY <1>3, <1>4, <1>5, <1>6 DEF BodyFields
<1> QED
  BY <1>1, <1>7
-------------------------------------------------------------------------------
(* Reading *)

WithSets(d, q, s, f, l, e, a) ==
    [d EXCEPT !.query = q, !.snapshot_ids = s, !.families = f, !.selections = l,
              !.exclusions = e, !.abstain_reasons = a]

LEMMA SetFieldsAreSet ==
    ASSUME NEW b, NEW c, NEW q, NEW s, NEW f, NEW l, NEW e, NEW a,
           b = [x \in BodyFields |-> b[x]], c = [x \in BodyFields |-> c[x]],
           c.decided_at = b.decided_at, c.outcome = b.outcome,
           c.usage_profile = b.usage_profile
    PROVE  WithSets(b, q, s, f, l, e, a) = WithSets(c, q, s, f, l, e, a)
<1> DEFINE set(d) == [d EXCEPT !.query = q, !.snapshot_ids = s, !.families = f, !.selections = l,
                               !.exclusions = e, !.abstain_reasons = a]
<1>1. ASSUME NEW d, d = [x \in BodyFields |-> d[x]]
      PROVE  /\ set(d) = [x \in BodyFields |-> set(d)[x]]
             /\ set(d).query = q /\ set(d).snapshot_ids = s /\ set(d).families = f
             /\ set(d).selections = l /\ set(d).exclusions = e /\ set(d).abstain_reasons = a
             /\ set(d).decided_at = d.decided_at /\ set(d).outcome = d.outcome
             /\ set(d).usage_profile = d.usage_profile
  BY <1>1 DEF BodyFields
<1> HIDE DEF set
<1>2. \A x \in BodyFields : set(b)[x] = set(c)[x]
  BY <1>1 DEF BodyFields
<1>3. set(b) = set(c)
  BY <1>1, <1>2
<1> QED
  BY <1>3 DEF set, WithSets

(***************************************************************************)
(* What Python reads is canonical, even if nulls had to be dropped.        *)
(***************************************************************************)
LEMMA NullsAreDropped ==
    ASSUME NEW e \in Exclusions
    PROVE  /\ Py!NormalExclusion(e) \in NormalExclusions
           /\ Py!NormalExclusion(Py!NormalExclusion(e)) = Py!NormalExclusion(e)
<1> DEFINE n == Py!NormalExclusion(e)
           kept == {g \in DOMAIN e : e[g] # Null}
           fields == {"model_key", "reasoning_effort", "code", "detail"}
<1>1. PICK D \in SUBSET fields : e \in [D -> Texts \cup {Null}]
  BY DEF Exclusions
<1>2. /\ Has(e, "model_key") /\ e.model_key # Null
      /\ Has(e, "code") /\ e.code # Null
  BY DEF Exclusions
<1>3. n = [f \in kept |-> e[f]] /\ kept \in SUBSET fields
  BY <1>1 DEF Py!NormalExclusion
<1>4. n \in [kept -> Texts \cup {Null}] /\ \A f \in DOMAIN n : n[f] # Null
  BY <1>1, <1>3
<1>5. /\ Has(n, "model_key") /\ n.model_key # Null
      /\ Has(n, "code") /\ n.code # Null
  BY <1>2, <1>3 DEF Has
<1>6. n \in NormalExclusions
  <2>1. n \in UNION {[E -> Texts \cup {Null}] : E \in SUBSET fields}
    BY <1>3, <1>4
  <2> HIDE DEF n, kept
  <2> QED
    BY <1>4, <1>5, <2>1 DEF NormalExclusions, Exclusions
<1>7. ASSUME NEW x \in NormalExclusions PROVE Py!NormalExclusion(x) = x
  BY DEF Py!NormalExclusion, NormalExclusions, Exclusions
<1> QED
  BY <1>6, <1>7

LEMMA PyReads ==
    ASSUME NEW b, AreFields(b, BodyFields), Py!ValidBody(b)
    PROVE  Canonical(Py!Normal(b))
<1> DEFINE exclusions == [k \in DOMAIN b.exclusions |-> Py!NormalExclusion(b.exclusions[k])]
           c == [b EXCEPT !.exclusions = exclusions]
<1>1. /\ DOMAIN b = BodyFields
      /\ b.exclusions \in Seq(Exclusions)
      /\ \A k \in DOMAIN b.exclusions : b.exclusions[k] \in Exclusions
  <2>1. \A A : \A s \in Seq(A) : \A k \in DOMAIN s : s[k] \in A
    OBVIOUS
  <2>2. DOMAIN b = BodyFields /\ b.exclusions \in Seq(Exclusions)
    BY Types
  <2> QED
    BY <2>1, <2>2
<1>2. /\ exclusions \in Seq(NormalExclusions)
      /\ DOMAIN exclusions = DOMAIN b.exclusions
      /\ [k \in DOMAIN exclusions |-> Py!NormalExclusion(exclusions[k])] = exclusions
  <2>1. \A k \in DOMAIN b.exclusions :
            /\ Py!NormalExclusion(b.exclusions[k]) \in NormalExclusions
            /\ Py!NormalExclusion(Py!NormalExclusion(b.exclusions[k]))
                  = Py!NormalExclusion(b.exclusions[k])
    BY <1>1, NullsAreDropped
  <2> QED
    BY <1>1, <2>1
<1>3. /\ DOMAIN c = BodyFields /\ c = [f \in BodyFields |-> c[f]]
      /\ c.exclusions = exclusions
      /\ \A f \in BodyFields : f # "exclusions" => c[f] = b[f]
  <2> HIDE DEF exclusions
  <2> QED
    BY <1>1 DEF BodyFields
<1> HIDE DEF exclusions, c
<1>4. Plain(c)
  <2>1. exclusions \in Seq(Exclusions)
    <3>1. \A A, B : A \subseteq B => Seq(A) \subseteq Seq(B)
      OBVIOUS
    <3>2. NormalExclusions \subseteq Exclusions
      BY DEF NormalExclusions
    <3> QED
      BY <1>2, <3>1, <3>2
  <2>2. Fits("exclusions", c.exclusions)
    BY <1>3, <2>1 DEF Fits
  <2>3. AreFields(c, BodyFields)
    BY <1>3, <2>2 DEF AreFields
  <2>4. \A k \in DOMAIN b.families : b.families[k].weight_ppm # "1.0"
    BY DEF Py!ValidBody
  <2> QED
    BY <1>2, <1>3, <2>3, <2>4 DEF Plain, BodyFields
<1>5. /\ c.query = b.query /\ c.snapshot_ids = b.snapshot_ids /\ c.families = b.families
      /\ c.selections = b.selections /\ c.usage_profile = b.usage_profile
      /\ c.abstain_reasons = b.abstain_reasons /\ c.outcome = b.outcome
      /\ c.decided_at = b.decided_at
  BY <1>3 DEF BodyFields
<1>6. Py!ValidBody(c)
  <2>1. [k \in DOMAIN c.exclusions |-> Py!NormalExclusion(c.exclusions[k])]
           = [k \in DOMAIN b.exclusions |-> Py!NormalExclusion(b.exclusions[k])]
    BY <1>2, <1>3 DEF exclusions
  <2>2. Py!ValidPick(c) <=> Py!ValidPick(b)
    BY <1>5 DEF Py!ValidPick, Py!PickIsBest, Py!Costs
  <2>3. Py!MatchesPatterns(c) <=> Py!MatchesPatterns(b)
    BY <1>5 DEF Py!MatchesPatterns
  <2> QED
    BY <1>5, <2>1, <2>2, <2>3 DEF Py!ValidBody
<1>7. Py!Normal(c) = Py!Normal(b)
  <2>1. [k \in DOMAIN c.exclusions |-> Py!NormalExclusion(c.exclusions[k])] = exclusions
    BY <1>2, <1>3
  <2> DEFINE q == Py!NormalQuery(b.query)
             l == [k \in DOMAIN b.selections |-> Py!NormalSelection(b.selections[k])]
             made(d) == [d EXCEPT !.query = q, !.selections = l, !.exclusions = exclusions]
  <2>2. Py!Objects(b) = made(b) /\ Py!Objects(c) = made(c)
    BY <1>5, <2>1 DEF Py!Objects, exclusions
  <2>3. made(b) = made(c)
    <3>1. b = [x \in BodyFields |-> b[x]]
      BY Types
    <3> HIDE DEF q, l
    <3> QED
      BY <1>3, <3>1 DEF BodyFields
  <2> HIDE DEF made
  <2> QED
    BY <2>2, <2>3 DEF Py!Normal
<1>8. Py!Normal(c) = InOrder(c)
  BY <1>4, <1>6, PyNormal DEF Py!ValidBody
<1> QED
  BY <1>4, <1>6, <1>7, <1>8, OrderIsCanonical DEF Valid

(***************************************************************************)
(* What TypeScript reads is canonical, even if weights were floats.        *)
(***************************************************************************)
LEMMA TsReads ==
    ASSUME NEW b, AreFields(b, BodyFields), Ts!Parses(b)
    PROVE  Canonical(Ts!Normalized(b))
<1> DEFINE families == [k \in DOMAIN b.families |-> Ts!ParseFamily(b.families[k])]
           c == [b EXCEPT !.families = families]
<1>1. /\ DOMAIN b = BodyFields
      /\ b.families \in Seq(Families) /\ b.exclusions \in Seq(Exclusions)
      /\ \A k \in DOMAIN b.families : b.families[k] \in Families
      /\ \A k \in DOMAIN b.exclusions : b.exclusions[k] \in Exclusions
  <2>1. \A A : \A s \in Seq(A) : \A k \in DOMAIN s : s[k] \in A
    OBVIOUS
  <2>2. /\ DOMAIN b = BodyFields
        /\ b.families \in Seq(Families) /\ b.exclusions \in Seq(Exclusions)
    BY Types
  <2> QED
    BY <2>1, <2>2
<1>2. /\ families \in Seq(Families) /\ DOMAIN families = DOMAIN b.families
      /\ \A k \in DOMAIN b.families : /\ families[k].weight_ppm # "1.0"
                                       /\ families[k].family_id = b.families[k].family_id
                                       /\ families[k].stale_at = b.families[k].stale_at
                                       /\ Ts!ParseFamily(families[k]) = families[k]
  <2>1. ASSUME NEW f \in Families
        PROVE  /\ Ts!ParseFamily(f) \in Families /\ Ts!ParseFamily(f).weight_ppm # "1.0"
               /\ Ts!ParseFamily(f).family_id = f.family_id
               /\ Ts!ParseFamily(f).stale_at = f.stale_at
               /\ Ts!ParseFamily(Ts!ParseFamily(f)) = Ts!ParseFamily(f)
    BY DEF Ts!ParseFamily, Families
  <2> QED
    BY <1>1, <2>1
<1>3. b.exclusions \in Seq(NormalExclusions)
  <2>1. \A k \in DOMAIN b.exclusions : Ts!ParsesExclusion(b.exclusions[k])
    BY DEF Ts!Parses
  <2>2. ASSUME NEW e \in Exclusions, Ts!ParsesExclusion(e) PROVE e \in NormalExclusions
    <3>1. PICK D \in SUBSET {"model_key", "reasoning_effort", "code", "detail"} :
              e \in [D -> Texts \cup {Null}]
      BY DEF Exclusions
    <3>2. \A f \in DOMAIN e : f \in {"model_key", "reasoning_effort", "code", "detail"}
      BY <3>1
    <3>3. e.model_key # Null /\ e.code # Null
      BY DEF Exclusions
    <3>4. \A f \in DOMAIN e : e[f] # Null
      BY <2>2, <3>2, <3>3 DEF Ts!ParsesExclusion, Ts!Has
    <3> QED
      BY <3>4 DEF NormalExclusions
  <2>3. \A k \in DOMAIN b.exclusions : b.exclusions[k] \in NormalExclusions
    BY <1>1, <2>1, <2>2
  <2>4. \A A, B : \A s \in Seq(A) : (\A k \in DOMAIN s : s[k] \in B) => s \in Seq(B)
    OBVIOUS
  <2> QED
    BY <1>1, <2>3, <2>4
<1>4. /\ DOMAIN c = BodyFields /\ c = [f \in BodyFields |-> c[f]]
      /\ c.families = families
      /\ \A f \in BodyFields : f # "families" => c[f] = b[f]
  <2> HIDE DEF families
  <2> QED
    BY <1>1 DEF BodyFields
<1> HIDE DEF families, c
<1>5. /\ c.query = b.query /\ c.snapshot_ids = b.snapshot_ids /\ c.exclusions = b.exclusions
      /\ c.selections = b.selections /\ c.usage_profile = b.usage_profile
      /\ c.abstain_reasons = b.abstain_reasons /\ c.outcome = b.outcome
      /\ c.decided_at = b.decided_at
  BY <1>4 DEF BodyFields
<1>6. Plain(c)
  <2>1. Fits("families", c.families)
    BY <1>2, <1>4 DEF Fits
  <2>2. AreFields(c, BodyFields)
    BY <1>4, <2>1 DEF AreFields
  <2> QED
    BY <1>2, <1>3, <1>4, <1>5, <2>2 DEF Plain
<1>7. Ts!Parses(c)
  <2>1. Ts!Unique(c.families, Ts!FamilyKey)
    BY <1>2, <1>4 DEF Ts!Parses, Ts!Unique, Ts!FamilyKey, Ts!Text
  <2>2. Ts!PickIsValid(c) <=> Ts!PickIsValid(b)
    BY <1>5 DEF Ts!PickIsValid
  <2>3. Ts!MatchesPatterns(c)
    BY <1>2, <1>4, <1>5 DEF Ts!Parses, Ts!MatchesPatterns
  <2> QED
    BY <1>5, <2>1, <2>2, <2>3 DEF Ts!Parses
<1>8. Ts!Normalized(c) = Ts!Normalized(b)
  <2>1. [k \in DOMAIN c.families |-> Ts!ParseFamily(c.families[k])] = families
    BY <1>2, <1>4
  <2>2. Ts!Normalized(b) = WithSets(b, Ts!ParseQuery(b.query), Ts!SortedBy(b.snapshot_ids, Ts!Text),
            Ts!SortedBy(families, Ts!FamilyKey),
            [k \in DOMAIN b.selections |-> Ts!ParseSelection(b.selections[k])],
            Ts!SortedBy(b.exclusions, Ts!ExclusionKey),
            Ts!SortedBy(b.abstain_reasons, Ts!Text))
    BY DEF Ts!Normalized, families, WithSets
  <2>3. Ts!Normalized(c) = WithSets(c, Ts!ParseQuery(b.query), Ts!SortedBy(b.snapshot_ids, Ts!Text),
            Ts!SortedBy(families, Ts!FamilyKey),
            [k \in DOMAIN b.selections |-> Ts!ParseSelection(b.selections[k])],
            Ts!SortedBy(b.exclusions, Ts!ExclusionKey),
            Ts!SortedBy(b.abstain_reasons, Ts!Text))
    BY <1>5, <2>1 DEF Ts!Normalized, WithSets
  <2>4. b = [x \in BodyFields |-> b[x]]
    BY Types
  <2> QED
    BY <1>4, <1>5, <2>2, <2>3, <2>4, SetFieldsAreSet
<1>9. Ts!Normalized(c) = InOrder(c)
  BY <1>6, <1>7, TsNormal DEF Ts!Parses
<1>10. Py!ValidBody(c)
  BY <1>6, <1>7, TwinsOfPlain
<1> QED
  BY <1>6, <1>8, <1>9, <1>10, OrderIsCanonical DEF Valid

(***************************************************************************)
(* Python reads a canonical body as it is and writes it so, and so does    *)
(* TypeScript where it matches in both.                                    *)
(***************************************************************************)
LEMMA CanonicalIsRead ==
    ASSUME NEW c, Canonical(c)
    PROVE  /\ AreFields(c, BodyFields)
           /\ Py!ValidBody(c) /\ Py!Normal(c) = c /\ Py!BodyDict(c) = c
           /\ Ts!Parses(c) <=> MatchesAlike(c)
           /\ MatchesAlike(c) => Ts!Normalized(c) = c
<1>1. Plain(c) /\ Py!ValidBody(c) /\ InOrder(c) = c
  BY DEF Canonical, Valid
<1>2. Ts!Parses(c) <=> MatchesAlike(c)
  BY <1>1, TwinsOfPlain
<1>3. Py!Normal(c) = c
  BY <1>1, PyNormal DEF Py!ValidBody
<1>4. MatchesAlike(c) => Ts!Normalized(c) = c
  BY <1>1, <1>2, TsNormal DEF Ts!Parses
<1>5. Py!BodyDict(c) = c
  <2>1. /\ Py!SortedBy(c.families, Py!FamilyKey) = c.families
        /\ Py!SortedBy(c.exclusions, Py!ExclusionKey) = c.exclusions
        /\ Py!SortedBy(c.snapshot_ids, Py!Text) = c.snapshot_ids
        /\ Py!SortedBy(c.abstain_reasons, Py!Text) = c.abstain_reasons
    BY CanonicalSets, PySorts DEF Settled
  <2>2. c = [f \in BodyFields |-> c[f]]
    BY CanonicalSets
  <2> QED
    BY <2>1, <2>2 DEF Py!BodyDict
<1> QED
  BY <1>1, <1>2, <1>3, <1>4, <1>5 DEF Plain
-------------------------------------------------------------------------------
(* The invariant *)

IsDocument(d) ==
    d = [receipt_id |-> d.receipt_id, body |-> d.body] /\ AreFields(d.body, BodyFields)

IsReceipt(d) ==
    d = [receipt_id |-> Hash(d.body), body |-> d.body] /\ Canonical(d.body)

\* What was issued has a canonical body and its hash; of what is on the wire only the
\* types of its fields are known, for anybody may have written it.
Inv == issued # Null => IsReceipt(issued) /\ IsDocument(wire)

LEMMA HashesDiffer ==
    ASSUME NEW b, NEW c
    PROVE  /\ Hash(b) = Hash(c) => b = c
           /\ Py!Hash(b) = Hash(b) /\ Ts!Hash(b) = Hash(b)
<1>1. Hash(b).sha256 = b /\ Hash(c).sha256 = c
  BY DEF Hash
<1>2. Py!Hash(b) = Hash(b) /\ Ts!Hash(b) = Hash(b)
  BY DEF Hash, Py!Hash, Ts!Hash
<1> QED
  BY <1>1, <1>2

LEMMA ReceiptsAreDocuments ==
    ASSUME NEW d, IsReceipt(d)
    PROVE  IsDocument(d) /\ d.receipt_id = Hash(d.body)
<1>1. d.receipt_id = Hash(d.body)
  BY DEF IsReceipt
<1>2. AreFields(d.body, BodyFields)
  BY CanonicalIsRead DEF IsReceipt
<1>3. d = [receipt_id |-> d.receipt_id, body |-> d.body]
  BY <1>1 DEF IsReceipt
<1> QED
  BY <1>1, <1>2, <1>3 DEF IsDocument

(***************************************************************************)
(* Whatever a document holds, what a reader makes of it is a receipt under *)
(* the id the document carries.                                            *)
(***************************************************************************)
LEMMA PyResult ==
    ASSUME NEW d, AreFields(d.body, BodyFields), Py!FromDict(d) # Rejected
    PROVE  IsReceipt(Py!FromDict(d)) /\ Py!FromDict(d).receipt_id = d.receipt_id
<1> DEFINE n == Py!Normal(d.body)
<1>1. Canonical(n) /\ Py!BodyDict(n) = n
  <2>1. Py!ValidBody(d.body)
    BY DEF Py!FromDict
  <2> QED
    BY <2>1, PyReads, CanonicalIsRead
<1>2. d.receipt_id = Hash(n) /\ Py!FromDict(d) = [receipt_id |-> d.receipt_id, body |-> n]
  BY <1>1, HashesDiffer DEF Py!FromDict
<1> HIDE DEF n
<1> QED
  BY <1>1, <1>2 DEF IsReceipt

LEMMA TsResult ==
    ASSUME NEW d, AreFields(d.body, BodyFields), Ts!Parse(d) # Rejected
    PROVE  IsReceipt(Ts!Parse(d)) /\ Ts!Parse(d).receipt_id = d.receipt_id
<1> DEFINE n == Ts!Normalized(d.body)
<1>1. Ts!Parses(d.body) /\ d.receipt_id = Hash(n)
      /\ Ts!Parse(d) = [receipt_id |-> d.receipt_id, body |-> n]
  BY HashesDiffer DEF Ts!Parse
<1>2. Canonical(n)
  BY <1>1, TsReads
<1> HIDE DEF n
<1> QED
  BY <1>1, <1>2 DEF IsReceipt

LEMMA ReadingsAreReceipts ==
    ASSUME IsDocument(wire), NEW r \in Readings
    PROVE  IsReceipt(r) /\ r.receipt_id = wire.receipt_id
<1>1. r # Rejected /\ (r = Py!FromDict(wire) \/ r = Ts!Parse(wire))
  BY DEF Readings
<1> QED
  BY <1>1, PyResult, TsResult DEF IsDocument

(***************************************************************************)
(* Inv is inductive.                                                       *)
(***************************************************************************)
LEMMA InitInv == Init => Inv
  BY DEF Init, Inv

LEMMA CreatedIsReceipt ==
    ASSUME NEW d \in Drafts, Py!Create(d) # Rejected
    PROVE  IsReceipt(Py!Create(d))
<1> DEFINE u == [usage_profile |-> Py!UsageFor(d.query)]
           b == Py!Joined(u, d)
           doc == [receipt_id |-> Py!Hash(Py!BodyDict(Py!Objects(b))), body |-> b]
<1>1. AreFields(d, BodyFields \ {"usage_profile"})
  BY PublicationAssumption
<1>2. DOMAIN d = BodyFields \ {"usage_profile"}
      /\ \A f \in BodyFields \ {"usage_profile"} : Fits(f, d[f])
  BY <1>1 DEF AreFields
<1>3. DOMAIN u \cup DOMAIN d = BodyFields
  BY <1>2 DEF BodyFields
<1> HIDE DEF u
<1>4. DOMAIN b = BodyFields /\ b = [f \in BodyFields |-> b[f]]
  BY <1>3 DEF Py!Joined
<1>5. ASSUME NEW f \in BodyFields PROVE Fits(f, b[f])
  <2>1. CASE f = "usage_profile"
    BY <2>1 DEF Fits
  <2>2. CASE f # "usage_profile"
    <3>1. b[f] = d[f]
      BY <1>3, <2>2 DEF Py!Joined, Py!Has, u
    <3> QED
      BY <1>2, <2>2, <3>1
  <2> QED
    BY <2>1, <2>2
<1>6. AreFields(b, BodyFields)
  BY <1>4, <1>5 DEF AreFields
<1> HIDE DEF b
<1>7. doc.body = b /\ Py!Create(d) = Py!FromDict(doc)
  BY DEF Py!Create, b, u
<1> HIDE DEF doc
<1> QED
  BY <1>6, <1>7, PyResult

LEMMA StepInv == Inv /\ [Next]_vars => Inv'
<1> SUFFICES ASSUME Inv, [Next]_vars PROVE Inv'
  OBVIOUS
<1>1. ASSUME NEW d \in Drafts, Issue(d) PROVE Inv'
  <2>1. IsReceipt(issued') /\ wire' = issued'
    BY <1>1, CreatedIsReceipt DEF Issue
  <2>2. IsDocument(wire')
    BY <2>1, ReceiptsAreDocuments
  <2> QED
    BY <2>1, <2>2 DEF Inv
<1>2. ASSUME NEW f \in DOMAIN Edits, NEW v \in Edits[f], Edit(f, v) PROVE Inv'
  <2>1. f \in BodyFields /\ Fits(f, v)
    BY PublicationAssumption
  <2>2. /\ IsReceipt(issued) /\ IsDocument(wire) /\ issued' = issued
        /\ wire' = [wire EXCEPT !.body[f] = v]
    BY <1>2 DEF Inv, Edit, Change
  <2>3. /\ wire = [receipt_id |-> wire.receipt_id, body |-> wire.body]
        /\ AreFields(wire.body, BodyFields)
    BY <2>2 DEF IsDocument
  <2> DEFINE b == wire.body
             c == [b EXCEPT ![f] = v]
  <2>4. AreFields(c, BodyFields)
    BY <2>1, <2>3 DEF AreFields
  <2>5. wire' = [receipt_id |-> wire.receipt_id, body |-> c]
    BY <2>2, <2>3
  <2> HIDE DEF c
  <2>6. IsDocument(wire')
    BY <2>4, <2>5 DEF IsDocument
  <2> QED
    BY <2>2, <2>6 DEF Inv
<1>3. ASSUME Rehash PROVE Inv'
  <2>1. /\ IsReceipt(issued) /\ IsDocument(wire) /\ issued' = issued
        /\ wire' = [wire EXCEPT !.receipt_id = Ts!ReceiptId(wire.body)]
    BY <1>3 DEF Inv, Rehash
  <2>2. wire' = [receipt_id |-> Ts!ReceiptId(wire.body), body |-> wire.body]
    BY <2>1 DEF IsDocument
  <2>3. IsDocument(wire')
    BY <2>1, <2>2 DEF IsDocument
  <2> QED
    BY <2>1, <2>3 DEF Inv
<1>4. ASSUME Forward PROVE Inv'
  <2>1. IsReceipt(issued) /\ IsDocument(wire) /\ issued' = issued /\ wire' \in Readings
    BY <1>4 DEF Inv, Forward
  <2>2. IsDocument(wire')
    BY <2>1, ReadingsAreReceipts, ReceiptsAreDocuments
  <2> QED
    BY <2>1, <2>2 DEF Inv
<1>5. ASSUME UNCHANGED vars PROVE Inv'
  BY <1>5 DEF vars, Inv
<1> QED
  BY <1>1, <1>2, <1>3, <1>4, <1>5 DEF Next

(***************************************************************************)
(* The issued receipt is canonical and hashed, in every state.             *)
(***************************************************************************)
THEOREM IssuedIsCanonical == Spec => []Inv
<1>1. Init => Inv
  BY InitInv
<1>2. Inv /\ [Next]_vars => Inv'
  BY StepInv
<1> QED
  BY <1>1, <1>2, PTL DEF Spec
-------------------------------------------------------------------------------
(* The properties *)

(***************************************************************************)
(* Whoever wrote into a document and whichever SDK reads it: the id of the *)
(* issued receipt is read just where the receipt says what was issued, in  *)
(* whatever order its sets were written.                                   *)
(***************************************************************************)
THEOREM IdentityTheorem == Spec => []IdentityIsWhatItSays
<1>1. Inv => IdentityIsWhatItSays
  <2> SUFFICES ASSUME Inv, issued # Null, NEW r \in Readings
               PROVE  r.receipt_id = issued.receipt_id <=> Says(r.body) = Says(issued.body)
    BY DEF IdentityIsWhatItSays
  <2>1. IsReceipt(issued) /\ IsReceipt(r)
    BY ReadingsAreReceipts DEF Inv
  <2>2. /\ r.receipt_id = Hash(r.body) /\ issued.receipt_id = Hash(issued.body)
        /\ Canonical(r.body) /\ Canonical(issued.body)
    BY <2>1, ReceiptsAreDocuments DEF IsReceipt
  <2>3. r.receipt_id = issued.receipt_id => r.body = issued.body
    BY <2>2, HashesDiffer
  <2>4. Says(r.body) = Says(issued.body) => r.body = issued.body
    BY <2>2, SayingIdentifies
  <2> QED
    BY <2>2, <2>3, <2>4
<1> QED
  BY <1>1, IssuedIsCanonical, PTL

(***************************************************************************)
(* normalizeReceiptBody and DecisionReceiptV2.from_dict never read one     *)
(* document in two ways, and take or refuse alike every portable one, that *)
(* is, every one without the spellings that the languages themselves take  *)
(* differently.                                                            *)
(***************************************************************************)
THEOREM TwinsTheorem == Spec => []TwinsAgree
<1>1. Inv => TwinsAgree
  <2> SUFFICES ASSUME Inv, issued # Null PROVE TwinsAgree
    BY DEF TwinsAgree
  <2>1. IsDocument(wire) /\ AreFields(wire.body, BodyFields)
    BY DEF Inv, IsDocument
  <2>2. ASSUME NEW r \in Readings, NEW s \in Readings PROVE r = s
    <3>1. IsReceipt(r) /\ IsReceipt(s) /\ r.receipt_id = s.receipt_id
      BY <2>1, ReadingsAreReceipts
    <3>2. r.body = s.body
      BY <3>1, ReceiptsAreDocuments, HashesDiffer
    <3> QED
      BY <3>1, <3>2 DEF IsReceipt
  <2>3. ASSUME Portable(wire.body) PROVE Py!FromDict(wire) = Ts!Parse(wire)
    <3> DEFINE b == wire.body
    <3>1. Plain(b)
      <4>1. b.exclusions \in Seq(Exclusions)
        BY <2>1, Types
      <4>2. \A A : \A s \in Seq(A) : \A k \in DOMAIN s : s[k] \in A
        OBVIOUS
      <4>3. \A k \in DOMAIN b.exclusions : b.exclusions[k] \in Exclusions
        BY <4>1, <4>2
      <4>4. \A k \in DOMAIN b.exclusions : b.exclusions[k] \in NormalExclusions
        BY <2>3, <4>3 DEF Portable, NormalExclusions
      <4>5. \A A, B : \A s \in Seq(A) : (\A k \in DOMAIN s : s[k] \in B) => s \in Seq(B)
        OBVIOUS
      <4>6. b.exclusions \in Seq(NormalExclusions)
        BY <4>1, <4>4, <4>5
      <4> QED
        BY <2>1, <2>3, <4>6 DEF Plain, Portable
    <3>2. Ts!Parses(b) <=> Py!ValidBody(b)
      BY <2>3, <3>1, TwinsOfPlain DEF Portable
    <3>3. Py!ValidBody(b) => Py!Normal(b) = InOrder(b) /\ Ts!Normalized(b) = InOrder(b)
      BY <3>1, <3>2, PyNormal, TsNormal DEF Py!ValidBody, Ts!Parses
    <3>4. Py!ValidBody(b) => Py!BodyDict(InOrder(b)) = InOrder(b)
      BY <3>1, OrderIsCanonical, CanonicalIsRead DEF Valid
    <3> QED
      BY <3>2, <3>3, <3>4, HashesDiffer DEF Py!FromDict, Ts!Parse
  <2> QED
    BY <2>2, <2>3 DEF TwinsAgree
<1> QED
  BY <1>1, IssuedIsCanonical, PTL

(***************************************************************************)
(* Passing a receipt on is safe: what one reader accepted, both read as    *)
(* the same receipt, unless it has a text that matches in Python only; to  *)
(* TypeScript such a receipt is none.                                      *)
(***************************************************************************)
THEOREM ForwardedTheorem == Spec => []ForwardedIsAccepted
<1>1. Inv => ForwardedIsAccepted
  <2> SUFFICES ASSUME Inv, issued # Null, NEW r \in Readings
               PROVE  /\ Py!FromDict(r) = r
                      /\ Ts!Parse(r) = IF MatchesAlike(r.body) THEN r ELSE Rejected
    BY DEF ForwardedIsAccepted
  <2>1. IsReceipt(r)
    BY ReadingsAreReceipts DEF Inv
  <2>2. /\ r = [receipt_id |-> Hash(r.body), body |-> r.body]
        /\ r.receipt_id = Hash(r.body)
        /\ Canonical(r.body)
    BY <2>1, ReceiptsAreDocuments DEF IsReceipt
  <2>3. /\ Py!ValidBody(r.body) /\ Py!Normal(r.body) = r.body
        /\ Py!BodyDict(r.body) = r.body
        /\ Ts!Parses(r.body) <=> MatchesAlike(r.body)
        /\ MatchesAlike(r.body) => Ts!Normalized(r.body) = r.body
    BY <2>2, CanonicalIsRead
  <2> QED
    BY <2>2, <2>3, HashesDiffer DEF Py!FromDict, Ts!Parse
<1> QED
  BY <1>1, IssuedIsCanonical, PTL
===============================================================================
