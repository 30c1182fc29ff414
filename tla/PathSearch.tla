----------------------------- MODULE PathSearch -----------------------------
(***************************************************************************)
(* Dijkstra's search as pathsearch/dijkstra.rs runs it, over the frontier  *)
(* of pathsearch/frontier.rs: a list kept in order of descending cost and  *)
(* an index of it by tag, which every insertion and removal renumbers.     *)
(* One step is one turn of a loop.  The order of a node's links is that of *)
(* a hash map, so any.  Positions are counted from 1.                      *)
(*                                                                         *)
(* A search is for one path ("path", reverse_path) or for the paths to all *)
(* nodes ("tree", path_search_tree), of which the one to `to' is looked at *)
(* here.                                                                   *)
(***************************************************************************)
EXTENDS Integers, Sequences, FiniteSets, SequencesExt

CONSTANTS Tag,        \* the nodes, ordered as numbers
          Graph,      \* the graphs to search
          Query,      \* the pairs of ends to search between
          Unanswered

\* Links lead between nodes and have no negative cost (add_node asserts it).
Weighted(g) ==
  /\ DOMAIN g \subseteq Tag
  /\ \A u \in DOMAIN g : DOMAIN g[u] \subseteq Tag /\ \A v \in DOMAIN g[u] : g[u][v] \in Nat

ASSUME SearchAssumption ==
  /\ Tag \subseteq Int /\ IsFiniteSet(Tag) /\ \A g \in Graph : Weighted(g)
  /\ Query \subseteq Tag \X Tag /\ Unanswered \notin Seq(Tag)

VARIABLES graph, goal, from, to, \* the search
          queue,      \* Frontier.queue: <<tag, cost>>, cheapest last
          index,      \* Frontier.index: tag -> position in queue
          explored,
          previous,
          current,    \* the node whose links the loop is at, with its cost
          todo,       \* its links the loop has yet to visit
          found       \* what the search returns

searchVars == <<graph, goal, from, to, queue, index, explored, previous, current, todo, found>>
search == <<graph, goal, from, to>>

-----------------------------------------------------------------------------
\* The order of the queue (key_fn): by descending cost, then by tag.
Precedes(a, b) == a[2] > b[2] \/ (a[2] = b[2] /\ a[1] < b[1])

InsertionPos(q, item) == 1 + Cardinality({ i \in DOMAIN q : Precedes(q[i], item) })

\* Mutant of Shifted: the entry at the position itself keeps its number.
ShiftedAfter(idx, pos, by) == [t \in DOMAIN idx |-> IF idx[t] > pos THEN idx[t] + by ELSE idx[t]]

\* The index after an insertion (by = 1) or a removal (by = -1) at pos.
Shifted(idx, pos, by) == [t \in DOMAIN idx |-> IF idx[t] >= pos THEN idx[t] + by ELSE idx[t]]

Without(idx, t) == [u \in DOMAIN idx \ {t} |-> idx[u]]

\* A frontier is a record of its queue and its index.
Push(f, t, cost) ==
  LET pos == InsertionPos(f.queue, <<t, cost>>)
      idx == Shifted(f.index, pos, 1) IN
  [queue |-> InsertAt(f.queue, pos, <<t, cost>>),
   index |-> [u \in DOMAIN idx \cup {t} |-> IF u = t THEN pos ELSE idx[u]]]

Cheaper(f, t, cost) == t \notin DOMAIN f.index \/ cost < f.queue[f.index[t]][2]

\* Mutant of InsertOrDecrease: a node in the queue keeps the cost it came with.
InsertOnly(f, t, cost) == IF t \in DOMAIN f.index THEN f ELSE Push(f, t, cost)

\* try_insert_or_decrease_cost, for a cost that is Cheaper.
InsertOrDecrease(f, t, cost) ==
  IF t \notin DOMAIN f.index THEN Push(f, t, cost)
  ELSE LET i == f.index[t] IN
       Push([queue |-> RemoveAt(f.queue, i), index |-> Shifted(Without(f.index, t), i, -1)], t, cost)

Frontier == [queue |-> queue, index |-> index]

-----------------------------------------------------------------------------
\* The chain of predecessors of a node, itself first, the start left out.
Chain(t) ==
  LET cur[n \in 1..Cardinality(Tag)] ==
        IF n = 1 THEN t
        ELSE IF cur[n - 1] \in DOMAIN previous THEN previous[cur[n - 1]] ELSE cur[n - 1]
  IN  [n \in { m \in 1..Cardinality(Tag) : cur[m] \in DOMAIN previous } |-> cur[n]]

SearchInit ==
  /\ graph \in Graph /\ goal \in {"path", "tree"} /\ from \in { q[1] : q \in Query }
  /\ to \in { q[2] : q \in { r \in Query : r[1] = from } }
  /\ queue = <<<<from, 0>>>> /\ index = [t \in {from} |-> 1]
  /\ explored = {} /\ previous = <<>> /\ current = Unanswered /\ todo = {}
  /\ found = Unanswered

Searching == found = Unanswered

\* Without nodes the search is not run.
Refuse ==
  /\ Searching /\ graph = <<>> /\ found' = <<>>
  /\ UNCHANGED <<search, queue, index, explored, previous, current, todo>>

\* The cheapest node leaves the frontier: the goal ends the search, any other is explored.
Pop ==
  /\ Searching /\ graph # <<>> /\ todo = {} /\ queue # <<>>
  /\ LET t == Last(queue)[1] IN
     /\ queue' = Front(queue) /\ index' = Without(index, t)
     /\ IF goal = "path" /\ t = to
        THEN /\ found' = IF Chain(t) = <<>> THEN <<>> ELSE Chain(t) \o <<from>>
             /\ UNCHANGED <<explored, current, todo>>
        ELSE /\ explored' = explored \cup {t}
             /\ current' = Last(queue)
             /\ todo' = IF t \in DOMAIN graph THEN DOMAIN graph[t] ELSE {}
             /\ UNCHANGED found
  /\ UNCHANGED <<search, previous>>

\* Mutant of Relax: explored nodes are not skipped.
RelaxExplored(n) ==
  /\ Searching /\ n \in todo /\ todo' = todo \ {n}
  /\ LET cost == current[2] + graph[current[1]][n] IN
     IF Cheaper(Frontier, n, cost)
     THEN /\ queue' = InsertOrDecrease(Frontier, n, cost).queue
          /\ index' = InsertOrDecrease(Frontier, n, cost).index
          /\ previous' = [u \in DOMAIN previous \cup {n} |-> IF u = n THEN current[1] ELSE previous[u]]
     ELSE UNCHANGED <<queue, index, previous>>
  /\ UNCHANGED <<search, explored, current, found>>

\* One link of the node being explored.
Relax(n) ==
  /\ Searching /\ n \in todo /\ todo' = todo \ {n}
  /\ LET cost == current[2] + graph[current[1]][n] IN
     IF n \notin explored /\ Cheaper(Frontier, n, cost)
     THEN /\ queue' = InsertOrDecrease(Frontier, n, cost).queue
          /\ index' = InsertOrDecrease(Frontier, n, cost).index
          /\ previous' = [u \in DOMAIN previous \cup {n} |-> IF u = n THEN current[1] ELSE previous[u]]
     ELSE UNCHANGED <<queue, index, previous>>
  /\ UNCHANGED <<search, explored, current, found>>

\* Nothing is left in the frontier: there is no path, or all of the tree is known.  A
\* tree holds the nodes between the start and each end, which are given here with both.
Exhausted ==
  /\ Searching /\ todo = {} /\ queue = <<>>
  /\ found' = IF goal = "tree" /\ to \in DOMAIN previous THEN Chain(to) \o <<from>> ELSE <<>>
  /\ UNCHANGED <<search, queue, index, explored, previous, current, todo>>

SearchNext == Refuse \/ Pop \/ (\E n \in Tag : Relax(n)) \/ Exhausted

SearchSpec == SearchInit /\ [][SearchNext]_searchVars

-----------------------------------------------------------------------------
\* The index names the position of every node in the queue and of no other, after any
\* run of insertions, removals and decreases, and the queue is in order: what Frontier
\* keeps in two structures is one priority queue.
FrontierConsistent ==
  /\ DOMAIN index = { queue[i][1] : i \in DOMAIN queue }
  /\ \A i \in DOMAIN queue : index[queue[i][1]] = i
  /\ \A i \in 1..(Len(queue) - 1) : Precedes(queue[i], queue[i + 1])

\* Walking back over the predecessors ends, at the start, from every node that has one:
\* the loops over `previous' have no other bound.
WalksBackToStart ==
  /\ from \notin DOMAIN previous
  /\ \A t \in DOMAIN previous : previous[Last(Chain(t))] = from

\* Between the steps of a search the frontier is consistent and what is explored leads back to the
\* start.  (frontier.rs, dijkstra.rs)
SearchConsistent == FrontierConsistent /\ WalksBackToStart

\* The search, path or tree, returns a cheapest path or says rightly that there is none:
\* it implements the abstract path search.
Search == INSTANCE ShortestPath WITH answer <- found
FindsShortest == Search!Spec
=============================================================================
