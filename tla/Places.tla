------------------------------- MODULE Places -------------------------------
(* Some of the entries of a list, in the order of the list. *)
EXTENDS Integers, Sequences, FiniteSets

\* The entries of s at the places K: Python's [x for x in s if ...].
AtPlaces(s, K) == [j \in 1 .. Cardinality(K) |-> s[CHOOSE i \in K : Cardinality({k \in K : k <= i}) = j]]
=============================================================================
