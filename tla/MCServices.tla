----------------------------- MODULE MCServices -----------------------------
(***************************************************************************)
(* The services of Services.tla, each on a small instance.                 *)
(***************************************************************************)
EXTENDS Services, TLC

MCDomain ==
  [Queries |-> {"q"}, MaxId |-> 2, MaxTx |-> 3, MaxFailed |-> 1,
   Kind |-> {"Register", "CreateSubdomain", "UpdateRecords", "Takeover", "Destroy", "Blacklist"}]

MCCaller == [Rpcs |-> <<"a", "b">>, Call |-> {1, 2}, MaxTries |-> 1]

MCStreamer ==
  [Url |-> {"u", "v"}, Filter |-> {"f", "g"}, Memory |-> 1, MaxTx |-> 1, MaxTime |-> 1, MaxDrops |-> 2]

\* What nodes post, of one peer id and another: a node's credentials, changed ones, a second
\* address family, and those of somebody else.
Creds(ip, addr, fam, pass) == [ip |-> ip, addr |-> addr, fam |-> fam, pass |-> pass]
A4 == Creds("a", "a4", 4, 1)
NewA4 == Creds("a", "a4", 4, 2)
B6 == Creds("b", "b6", 6, 1)
Q4 == Creds("q", "q4", 4, 1)
Q6 == Creds("q", "q6", 6, 1)
Posted(sender, id, creds) == [sender |-> sender, id |-> id, creds |-> creds]

MCSeeded ==
  [Cred |-> {A4, NewA4, B6, Q4, Q6}, PubId |-> {"PUB_x"},
   Posts |-> { Posted("a", "y", <<A4>>), Posted("a", "PUB_x", <<A4, NewA4>>),
               Posted("b", "PUB_x", <<B6, A4>>), Posted("q", "y", <<Q4, Q6>>) },
   InFlight |-> {"r1", "r2"}, Unfit |-> { {} }, Result |-> {}, Respond |-> 2, Share |-> 0,
   Cutoff |-> 1, MaxAge |-> 1, MaxNow |-> 0, MaxPeers |-> 5]

MCShared ==
  [Cred |-> {A4, NewA4}, PubId |-> {"PUB_x"},
   Posts |-> { Posted("a", "PUB_x", <<A4>>), Posted("a", "y", <<A4>>), Posted("a", "PUB_x", <<NewA4>>) },
   InFlight |-> {"r"}, Unfit |-> { {}, {"a"} }, Result |-> BOOLEAN, Respond |-> 1, Share |-> 1,
   Cutoff |-> 2, MaxAge |-> 1, MaxNow |-> 3, MaxPeers |-> 1]

MCTested ==
  [Peers |-> <<"p", "q">>, Agent |-> {"x", "y"}, Retest |-> 2, Window |-> 2, Patience |-> 1,
   Attempts |-> 2, Cap |-> 1, MaxNow |-> 2]

\* A route of two hops, whose links come and go ...
MCLine ==
  [Ip |-> {"a", "b", "c"}, Peering |-> { <<"a", "b">>, <<"b", "a">>, <<"b", "c">>, <<"c", "b">> },
   Label |-> {1}, Request |-> {"r"}, Asked |-> { [src |-> "a", tar |-> "c"] },
   UseOld |-> FALSE, Interval |-> 0, MaxNow |-> 1, MaxChanges |-> 2, MaxGen |-> 2, MaxLinks |-> 1]

\* ... and one to a peer with several links.
MCPair ==
  [Ip |-> {"a", "b"}, Peering |-> { <<"a", "b">>, <<"b", "a">> },
   Label |-> {1, 2}, Request |-> {"r"}, Asked |-> { [src |-> "b", tar |-> "a"] },
   UseOld |-> FALSE, Interval |-> 0, MaxNow |-> 1, MaxChanges |-> 2, MaxGen |-> 2, MaxLinks |-> 2]

\* The sections the server's tasks run: a handler of announcements and queries, the cleaner, and
\* web requests one at a time.
MCSections ==
  ("handler" :> {"announce", "gr"}) @@ ("cleaner" :> {"clean"}) @@ ("web" :> {"route", "dump", "ni", "walk"})
MCPeers == [n \in {"a", "b"} |-> {"a"}]

MCMessage ==
  [ChunkSize |-> 2, Writes |-> { <<1>>, <<2, 3>>, <<1, 2, 3>>, <<>> }, Counts |-> 0..6, MaxLen |-> 5]

MCAdministered ==
  [Call |-> {"c", "d"}, Auth |-> {"c"}, Subscribe |-> {"d"}, QueueBound |-> 1, StreamBound |-> 1,
   Period |-> 3, MaxStream |-> 3, MaxCopies |-> 1]
=============================================================================
