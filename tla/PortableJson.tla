------------------------------ MODULE PortableJson ----------------------------
(***************************************************************************)
(* What the readers of both languages share by agreement: the order of     *)
(* texts, canonical JSON and its hash.                                     *)
(*                                                                         *)
(* A JSON object is a record, so that objects which differ only in the     *)
(* order of their keys are equal; an optional field that was not sent is   *)
(* not in the record's domain.  An integer written as a float is "1.0".    *)
(***************************************************************************)
EXTENDS Integers, Sequences, FiniteSets, Functions

CONSTANTS Null,      \* JSON null, and Python's None
          Rejected,  \* an exception
          Rank,      \* position of each text in the order of UTF-16 code units
          SnapshotIds, Timestamps,  \* what Python's patterns of the two take
          PythonOnly                \* what of it the patterns of TypeScript refuse: Python's
                                    \* . takes a return and the separators U+2028 and U+2029,
                                    \* its \d the digits of every script

ASSUME PortableJsonAssumption ==
    /\ Null # Rejected /\ Null \notin DOMAIN Rank /\ Null \notin Seq(DOMAIN Rank)
    /\ Rank \in [DOMAIN Rank -> Int]
    /\ \A s, t \in DOMAIN Rank : Rank[s] = Rank[t] => s = t
    /\ SnapshotIds \cup Timestamps \subseteq DOMAIN Rank
    /\ PythonOnly \subseteq SnapshotIds \cup Timestamps

Texts == DOMAIN Rank

\* A total order of keys, which are tuples of texts of one length.
Precedes(k, m) ==
    \E i \in DOMAIN k : Rank[k[i]] < Rank[m[i]] /\ \A h \in 1 .. i - 1 : k[h] = m[h]

\* list in ascending order of its keys; what has equal keys keeps its order.
Sorted(list, keys) ==
    LET Before(i) == {j \in DOMAIN list : \/ Precedes(keys[j], keys[i])
                                          \/ keys[j] = keys[i] /\ j < i}
    IN  [k \in DOMAIN list |->
            list[CHOOSE i \in DOMAIN list : Cardinality(Before(i)) = k - 1]]

SortedBy(list, Key(_)) == Sorted(list, [i \in DOMAIN list |-> Key(list[i])])

Unique(list, Key(_)) ==
    \A i, j \in DOMAIN list : Key(list[i]) = Key(list[j]) => i = j

Text(s) == <<s>>

Has(object, field) == field \in DOMAIN object

\* An object with the fields of both.
Joined(object, other) ==
    [f \in DOMAIN object \cup DOMAIN other |->
        IF Has(object, f) THEN object[f] ELSE other[f]]

\* Mutant: the exclusions are left out of the text that is hashed.
ShortHash(body) == [sha256 |-> [body EXCEPT !.exclusions = <<>>]]

\* No two texts have one hash: the hash stands for the value itself.
Hash(body) == [sha256 |-> body]
===============================================================================
