----------------------------- MODULE RouteLabels ----------------------------
(***************************************************************************)
(* The label of a path (server/route.rs compute_routing_label), in the two *)
(* ways the code has, and the switches that follow it.                     *)
(*                                                                         *)
(* links[n][m] is what node n announced of its link with its peer m: the   *)
(* number m has at n, the label m reaches n with, and the number of the    *)
(* form in which n writes the label it reaches m with; zero form and label *)
(* stand for a peer n has announced nothing of.                            *)
(***************************************************************************)
EXTENDS Labels

\* What n announces of each of its peers when label[n][m] is n's label for m.
Announced(label, scheme) ==
  [n \in DOMAIN label |->
     [m \in DOMAIN label[n] |->
        [num |-> label[n][m], label |-> label[m][n], form |-> FormNum(label[n][m], scheme[n])]]]

\* The loop between two nodes: forms is the number of the form of the way back from
\* last to the node before it.
NoLabels == [label |-> <<>>, form |-> 0]

Extended(acc, label, scheme, cur, back) ==
  LET wide == IF cur < acc.form THEN ReEncode(label, scheme, acc.form) ELSE label IN
  IF cur = 0 \/ back = 0 \/ wide = 0 THEN NoLabels
  ELSE [label |-> Append(acc.label, wide), form |-> back]

\* use_old_compute_routing_label_impl: the label and the form that node announced.
HopOld(acc, links, scheme, last, node) ==
  LET link == links[node][last] IN
  Extended(acc, link.label, scheme[last], FormNum(link.label, scheme[last]), link.form)

\* Mutant of HopNew: a label is never re-encoded.
HopNewShort(acc, links, scheme, last, node) ==
  LET yg == links[last][node].num
      gy == links[node][last].num IN
  Extended([acc EXCEPT !.form = 0], yg, scheme[last], FormNum(yg, scheme[node]), FormNum(gy, scheme[last]))

\* Otherwise the number that last announced; its form is looked up in the scheme of
\* node, and that of the number node announced in the scheme of last.
HopNew(acc, links, scheme, last, node) ==
  LET yg == links[last][node].num
      gy == links[node][last].num IN
  Extended(acc, yg, scheme[last], FormNum(yg, scheme[node]), FormNum(gy, scheme[last]))

Linked(links, n, m) == n \in DOMAIN links /\ m \in DOMAIN links[n]

\* compute_routing_label: path leads from the source to the destination.
RouteLabel(links, scheme, path, old) ==
  LET hops == { i \in 1..(Len(path) - 1) : TRUE }
      walked == FoldLeft(LAMBDA acc, i :
                           IF i > 1 /\ acc.label = <<>> THEN acc
                           ELSE IF old THEN HopOld(acc, links, scheme, path[i], path[i + 1])
                           ELSE HopNew(acc, links, scheme, path[i], path[i + 1]),
                         NoLabels, [i \in hops |-> i]) IN
  IF \/ \E i \in hops : \/ ~Linked(links, path[i + 1], path[i])
                        \/ ~old /\ ~Linked(links, path[i], path[i + 1])
     \/ \E i \in hops : ~old /\ 0 \in {links[path[i]][path[i + 1]].num, links[path[i + 1]][path[i]].num}
     \/ walked.label = <<>>
    THEN 0
    ELSE Splice(<<Self>> \o Reverse(walked.label))

-----------------------------------------------------------------------------
\* External: the switches of the nodes on the path.  Each takes a director off and puts
\* that of the way back in its place, for which there has to be room.
Follows(label, links, scheme, path) ==
  LET after == [i \in 0..(Len(path) - 1) |->
                  FoldLeft(LAMBDA l, j : IF l < 2 THEN 0 ELSE Rest(l, scheme[path[j]]),
                           label, [j \in 1..i |-> j])]
      used(i) == scheme[path[i]][FormNum(after[i - 1], scheme[path[i]])]
      back(i) == LET gy == links[path[i]][path[i - 1]].num IN
                 scheme[path[i]][FormNum(gy, scheme[path[i]])] IN
  /\ \A i \in 1..(Len(path) - 1) :
       /\ after[i - 1] > 1 /\ FormNum(after[i - 1], scheme[path[i]]) # 0
       /\ Interface(after[i - 1], scheme[path[i]])
            = Interface(links[path[i]][path[i + 1]].num, scheme[path[i]])
       /\ i > 1 => SizeBits(back(i)) <= SizeBits(used(i))
  /\ after[Len(path) - 1] = Self

\* The label of a path leads along it, and is missing only if it would be longer than a
\* label may be.  The new way needs nodes of one scheme: it looks up each number's form
\* in the scheme of the node at the other end.
LeadsThere(links, scheme, path, old) ==
  LET label == RouteLabel(links, scheme, path, old)
      size(n, m) == SizeBits(scheme[n][FormNum(links[n][m].num, scheme[n])])
      bits(i) == Max({size(path[i], path[j]) : j \in {i - 1, i + 1} \ {0}})
      length == MapThenSumSet(bits, 1..(Len(path) - 1)) IN
  (old \/ \A n, m \in Range(path) : scheme[n] = scheme[m]) =>
    IF label = 0 THEN length >= MaxPayloadBits ELSE Follows(label, links, scheme, path)

\* The loop of the routing comes to the label that build_label builds of the same path.
AsBuilt(links, scheme, path) ==
  RouteLabel(links, scheme, path, TRUE) =
    BuildLabel([i \in DOMAIN path |->
                  [p |-> IF i = 1 THEN 0 ELSE links[path[i]][path[i - 1]].num,
                   n |-> IF i = Len(path) THEN 0 ELSE links[path[i]][path[i + 1]].num,
                   scheme |-> scheme[path[i]]]])
=============================================================================
