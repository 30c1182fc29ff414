----------------------------- MODULE MCSeeding ------------------------------
(***************************************************************************)
(* A node that posts its credentials under a public peer id and under one  *)
(* that is not, and a node that asks.                                      *)
(***************************************************************************)
EXTENDS Seeding

Creds(ip, addr) == [ip |-> ip, addr |-> addr, fam |-> 4, pass |-> 1]
Posted(sender, id) == [sender |-> sender, id |-> id, creds |-> <<Creds(sender, sender)>>]

MCCred == {Creds("a", "a"), Creds("q", "q")}
MCPosts == {Posted("a", "PUB_x"), Posted("a", "y"), Posted("q", "y")}
MCUnfit == { {} }
=============================================================================
