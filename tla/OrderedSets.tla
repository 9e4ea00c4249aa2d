----------------------------- MODULE OrderedSets -----------------------------
(***************************************************************************)
(* Finite sets of naturals read in increasing order.  The resolver sorts   *)
(* package names, scans slices first-match-first and filters slices in     *)
(* order; Nth and Pick say what those loops return without recursion, so   *)
(* that facts about them can be proved.                                    *)
(***************************************************************************)
EXTENDS Integers, Sequences, FiniteSets

\* The k-th smallest element of a finite set K of positive naturals.
Nth(K, k) == CHOOSE i \in K : Cardinality(K \cap (1 .. i)) = k

\* The elements of K in increasing order (sort.Strings on distinct keys).
Sorted(K) == [k \in 1 .. Cardinality(K) |-> Nth(K, k)]

\* The subsequence of s at the positions K, in order (a filtering loop).
Pick(s, K) == [k \in 1 .. Cardinality(K) |-> s[Nth(K, k)]]

\* The least element of a non-empty set of naturals (a first-match loop).
Least(K) == CHOOSE i \in K : \A j \in K : i <= j

\* The greatest element of a non-empty finite set of naturals.
Greatest(K) == CHOOSE i \in K : \A j \in K : i >= j
=============================================================================
