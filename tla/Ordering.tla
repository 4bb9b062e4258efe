------------------------------ MODULE Ordering ------------------------------
(* Sets of positions in order, as Rust's sorted collections and sorts give. *)
EXTENDS Integers, FiniteSets

\* Tuples compare field by field.
Before(s, t) ==
  \E i \in DOMAIN s : s[i] < t[i] /\ \A j \in 1..(i - 1) : s[j] = t[j]

\* How many come before i.
Rank(indices, key, i) == Cardinality({j \in indices : Before(key[j], key[i])})

Sorted(indices, key) ==
  [k \in 1..Cardinality(indices) |->
     CHOOSE i \in indices : Rank(indices, key, i) = k - 1]

Ascending(indices) == Sorted(indices, [i \in indices |-> <<i>>])
=============================================================================
