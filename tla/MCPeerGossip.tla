---------------------------- MODULE MCPeerGossip ----------------------------
(***************************************************************************)
(* Small instances of PeerGossip: supernode "b" dials "a".                 *)
(***************************************************************************)
EXTENDS PeerGossip

ToA == [c \in Conns |-> "a"]
FromB == [c \in Conns |-> "b"]
AtA == [hash \in Hashes |-> "a"]

NoPings == [n \in Nodes |-> 0]
APings == [n \in Nodes |-> IF n = "a" THEN 2 ELSE 0]

TwoOverOne == {<<2, 1>>} \cap (Hashes \X Hashes)

\* A client that greets as a server would, offers and answers; a server that
\* answers what was not asked.
OddPeer ==
  {[end |-> <<1, "Outgoing">>, msg |-> m] :
      m \in {Msg("HELLO", 0, <<>>), Msg("INV", 0, <<1>>), Msg("DATA", 9, <<1>>)}}
  \cup {[end |-> <<1, "Incoming">>, msg |-> Msg("DATA", 9, <<1>>)]}

HungClient == {<<1, "Outgoing">>}
=============================================================================
