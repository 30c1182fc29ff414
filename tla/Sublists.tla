------------------------------ MODULE Sublists ------------------------------
(***************************************************************************)
(* Parts of a list, in its order: what Vec::retain and Iterator::filter    *)
(* leave of it.                                                            *)
(***************************************************************************)
EXTENDS Integers, Sequences, FiniteSets

\* The subsequence of s at the positions K.
Rank(K, i) == Cardinality({ j \in K : j <= i })

Pick(s, K) == [n \in 1..Cardinality(K) |-> s[CHOOSE i \in K : Rank(K, i) = n]]

\* The subsequence of those elements of s that are in S.
Among(s, S) == Pick(s, { i \in DOMAIN s : s[i] \in S })
=============================================================================
