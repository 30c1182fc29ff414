------------------------- MODULE MCAnnounceHandling -------------------------
(***************************************************************************)
(* Small instances of AnnounceHandling: a node "n" that announces itself,  *)
(* and the local node "s".                                                 *)
(***************************************************************************)
EXTENDS AnnounceHandling

MCIp == {"n", "s"}

Version == [kind |-> "version"]
Scheme == [kind |-> "scheme"]
PeerE(num, ip, label) == [kind |-> "peer", num |-> num, ip |-> ip, label |-> label, form |-> 0]
Samples(num, filled) == [kind |-> "linkstate", num |-> num, filled |-> filled]

AnnOf(node, ts, reset, entities) ==
  [node |-> node, ts |-> ts, reset |-> reset, snode |-> "s", entities |-> entities]

Reset1 == AnnOf("n", 1, TRUE, <<Version, Scheme, PeerE(1, "s", 5)>>)
Moved2 == AnnOf("n", 2, FALSE, <<PeerE(1, "s", 7)>>)
Gone2  == AnnOf("n", 2, FALSE, <<PeerE(1, "s", 0), Samples(2, 2)>>)
Swap3  == AnnOf("n", 3, FALSE, <<PeerE(1, "n", 5), PeerE(2, "s", 6), PeerE(1, "n", 8)>>)
Alive4 == AnnOf("n", 4, FALSE, <<>>)
Reset3 == AnnOf("n", 3, TRUE, <<Version, PeerE(2, "s", 6)>>)
Self1  == AnnOf("s", 1, TRUE, <<Version, Scheme>>)
Alien2 == [AnnOf("n", 2, FALSE, <<PeerE(2, "s", 6)>>) EXCEPT !.snode = "n"]
Mute2  == AnnOf("n", 2, TRUE, <<Scheme>>)

OneHandlerAnn == {Reset1, Gone2, Swap3, Reset3, Alive4}
TwoHandlerAnn == {Reset1, Moved2, Reset3, Self1, Alien2}
RedeliveredAnn == {Reset1, Alive4, Mute2}
BothAnn == TwoHandlerAnn \cup RedeliveredAnn

\* Constraint of the run with both handlers: any three of five announcements once each,
\* or the four of node "n", or three announcements up to twice.
OnceOrTwice ==
  \/ /\ \A a \in BothAnn : arrived[a] <= IF a \in TwoHandlerAnn THEN 1 ELSE 0
     /\ arrived[Self1] = 0 \/ Cardinality({ a \in BothAnn : arrived[a] = 1 }) <= 3
  \/ \A a \in BothAnn : arrived[a] > 0 => a \in RedeliveredAnn
=============================================================================
