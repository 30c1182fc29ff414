--------------------------- MODULE ShortestPath ----------------------------
(***************************************************************************)
(* What a path search promises: a query for a path over a weighted graph   *)
(* is answered, once, by a cheapest path, or by the empty path when there  *)
(* is none to be had.  A graph maps a node to the cost of the link to each *)
(* of its neighbours.                                                      *)
(***************************************************************************)
EXTENDS Integers, Sequences, FiniteSets

CONSTANTS Tag,      \* the nodes of a graph
          Unanswered

VARIABLES graph, from, to, answer

vars == <<graph, from, to, answer>>

\* Paths that visit no node twice; a cheapest path is one of them, as no cost is negative.
SimplePaths == [ends \in Tag \X Tag |->
  { p \in UNION { [1..n -> Tag] : n \in 2..Cardinality(Tag) } :
      /\ p[1] = ends[1] /\ p[Len(p)] = ends[2]
      /\ \A i, j \in DOMAIN p : p[i] = p[j] => i = j }]

PathsIn(g, a, b) ==
  { p \in SimplePaths[a, b] :
      \A i \in 1..(Len(p) - 1) : p[i] \in DOMAIN g /\ p[i + 1] \in DOMAIN g[p[i]] }

CostOf(g, p) ==
  LET upTo[i \in DOMAIN p] == IF i = 1 THEN 0 ELSE upTo[i - 1] + g[p[i - 1]][p[i]]
  IN  upTo[Len(p)]

ShortestPaths(g, a, b) ==
  LET all == PathsIn(g, a, b)
  IN  { p \in all : \A q \in all : CostOf(g, p) <= CostOf(g, q) }

\* The path is asked for from its far end, so the answer starts at `to'.
Backwards(p) == [i \in DOMAIN p |-> p[Len(p) + 1 - i]]

Answers(g, a, b) ==
  LET best == ShortestPaths(g, a, b)
  IN  IF best = {} THEN { <<>> } ELSE { Backwards(p) : p \in best }

Init == answer = Unanswered

Answer ==
  /\ answer = Unanswered
  /\ answer' \in Answers(graph, from, to)
  /\ UNCHANGED <<graph, from, to>>

Next == Answer

Spec == Init /\ [][Next]_vars
=============================================================================
