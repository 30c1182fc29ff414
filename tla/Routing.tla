------------------------------ MODULE Routing -------------------------------
(***************************************************************************)
(* Requests for a route (route.rs: get_route; service.rs: "gr"), while     *)
(* announcements move links, resets replace nodes and the cleaner removes  *)
(* them.  The graph is rebuilt when it is too old, and routes are cached   *)
(* until then.  Each lock that is taken is a step of its own.              *)
(*                                                                         *)
(* Left out: what links cost - any path through the graph may be the       *)
(* cheapest - and how labels are joined (RouteLabels).                     *)
(***************************************************************************)
EXTENDS Naturals, Sequences, FiniteSets, SequencesExt, Sublists

CONSTANTS Ip,
          Peering,   \* the pairs of nodes that have links
          Label,     \* of a link, and its number
          Request,   \* the requests in progress
          Asked,     \* what they ask for: [src, tar]
          UseOld,    \* use_old_compute_routing_label_impl
          Interval,  \* REBUILD_INTERVAL
          MaxNow, MaxChanges, MaxGen, MaxLinks  \* bounds: clock, changes, nodes of an address, links of a pair

VARIABLES now,
          changes,   \* how many things have changed
          table,     \* nodes_by_ip: which node of the address, or 0
          inward,    \* inward_links_by_ip of every node there was, by address and number
          routing,   \* last_rebuild, dijkstra (its edges) and route_cache
          owner,     \* who holds server.mut_state for the routing
          req,       \* per request: where it is and what it found; began and better are history
          seen       \* history: every first link there was since the last rebuild began

vars == <<now, changes, table, inward, routing, owner, req, seen>>

Nobody == "nobody"
NoGraph == {"none"}
Nodes == Ip \X (1..MaxGen)
Unlinked == [p \in Ip |-> <<>>]
NoNode == <<"none", 0>>

Link(label, num) == [label |-> label, num |-> num, created |-> changes + 1]
Node(ip) == IF table[ip] = 0 THEN NoNode ELSE <<ip, table[ip]>>

\* The links a route uses, of what the table holds.
FirstLinks(n, p) ==
  IF table[n] = 0 \/ inward[Node(n)][p] = <<>> THEN {} ELSE {inward[Node(n)][p][1]}

Resting == [at |-> "idle", src |-> NoNode, tar |-> NoNode, todo |-> {}, row |-> NoNode, left |-> {}, edges |-> {},
            path |-> <<>>, last |-> NoNode, hops |-> <<>>, ok |-> FALSE, peering |-> {}, confirmed |-> FALSE,
            time |-> 0, label |-> <<>>, began |-> 0, better |-> {}]

Init ==
  /\ now = 0 /\ changes = 0
  /\ table = [n \in Ip |-> 1]
  /\ inward = [n \in Nodes |-> [p \in Ip |->
       IF n[2] = 1 /\ <<n[1], p>> \in Peering THEN <<[label |-> 1, num |-> 1, created |-> 0]>> ELSE <<>>]]
  /\ routing = [last |-> 0, graph |-> NoGraph, cache |-> <<>>]
  /\ owner = Nobody
  /\ req = [r \in Request |-> Resting]
  /\ seen = [e \in Peering |-> {}]

-----------------------------------------------------------------------------
(* What happens meanwhile.                                                 *)

Tick ==
  /\ now < MaxNow
  /\ now' = now + 1
  /\ UNCHANGED <<changes, table, inward, routing, owner, req, seen>>

SeenToo == [e \in Peering |-> seen[e] \cup FirstLinks(e[1], e[2])']

\* A link is announced or withdrawn (handle_announce_impl, under the node's lock).
Announce(n, p) ==
  /\ <<n, p>> \in Peering /\ table[n] # 0 /\ changes < MaxChanges
  /\ LET links == inward[Node(n)][p] IN
       \E num \in Label :
         \/ /\ \E i \in DOMAIN links : links[i].num = num
            /\ inward' = [inward EXCEPT ![Node(n)][p] = Among(@, { l \in ToSet(@) : l.num # num })]
         \/ \E label \in Label :
              /\ \A i \in DOMAIN links : links[i].num = num => links[i].label # label
              /\ inward' = [inward EXCEPT ![Node(n)][p] =
                   IF \E i \in DOMAIN @ : @[i].num = num
                   THEN [i \in DOMAIN @ |-> IF @[i].num = num THEN Link(label, num) ELSE @[i]]
                   ELSE Append(@, Link(label, num))]
              /\ Len(inward'[Node(n)][p]) <= MaxLinks
  /\ changes' = changes + 1
  /\ UNCHANGED <<now, table, routing, owner, req>>
  /\ seen' = SeenToo

\* A reset replaces the node by one without links.
Reset(n) ==
  /\ table[n] \in 1..(MaxGen - 1) /\ changes < MaxChanges
  /\ table' = [table EXCEPT ![n] = @ + 1]
  /\ changes' = changes + 1
  /\ UNCHANGED <<now, inward, routing, owner, req>>
  /\ seen' = SeenToo

\* keep_table_clean
Clean(n) ==
  /\ table[n] # 0 /\ changes < MaxChanges
  /\ table' = [table EXCEPT ![n] = 0]
  /\ changes' = changes + 1
  /\ UNCHANGED <<now, inward, routing, owner, req, seen>>

-----------------------------------------------------------------------------
(* get_route.                                                              *)

\* What a node should be answered with for its peer: the newest link that both announced.
Direct(src, tar) ==
  IF NoNode \in {src, tar} THEN {}
  ELSE { l.label : l \in { x \in ToSet(inward[tar][src[1]]) :
           /\ \A y \in ToSet(inward[tar][src[1]]) : y.created <= x.created
           /\ \E z \in ToSet(inward[src][tar[1]]) : z.num = x.label } }

\* Both nodes are looked up; without one there is no route, and none is needed to itself.
Start(r) ==
  /\ req[r].at = "idle"
  /\ \E q \in Asked :
       LET src == Node(q.src)
           tar == Node(q.tar)
           begun == [Resting EXCEPT !.src = src, !.tar = tar, !.began = changes, !.better = Direct(src, tar)]
       IN req' = [req EXCEPT ![r] =
                    IF NoNode \in {src, tar} THEN [begun EXCEPT !.at = "newest"]
                    ELSE IF src = tar THEN [begun EXCEPT !.at = "newest", !.ok = TRUE]
                    ELSE [begun EXCEPT !.at = "lock"]]
  /\ UNCHANGED <<now, changes, table, inward, routing, owner, seen>>

\* Mutant of Cleared: routes are kept over a rebuild.
ClearedNever == routing.cache
Cleared == <<>>

Lock(r) ==
  /\ req[r].at = "lock" /\ owner = Nobody
  /\ owner' = r
  /\ IF routing.last + Interval < now \/ routing.graph = NoGraph
     THEN /\ routing' = [routing EXCEPT !.cache = Cleared]
          /\ seen' = [e \in Peering |-> FirstLinks(e[1], e[2])]
          /\ req' = [req EXCEPT ![r].at = "rows", ![r].time = now, ![r].todo = { n \in Ip : table[n] # 0 }]
     ELSE req' = [req EXCEPT ![r].at = "cached"] /\ UNCHANGED <<routing, seen>>
  /\ UNCHANGED <<now, changes, table, inward>>

\* build_node_graph takes the addresses in no order; one that is gone by then is a panic, and the
\* lock is free again.
Row(r, n) ==
  /\ req[r].at = "rows" /\ req[r].left = {} /\ n \in req[r].todo
  /\ IF table[n] = 0
     THEN req' = [req EXCEPT ![r] = [Resting EXCEPT !.at = "panic"]] /\ owner' = Nobody
     ELSE /\ req' = [req EXCEPT ![r].row = Node(n), ![r].todo = @ \ {n},
                                ![r].left = { p \in Ip : inward[Node(n)][p] # <<>> }]
          /\ UNCHANGED owner
  /\ UNCHANGED <<now, changes, table, inward, routing, seen>>

\* The other end of a link has to have one, too.  The row's links are locked, so that they are
\* still what they were.
Edge(r) ==
  /\ req[r].at = "rows" /\ req[r].left # {}
  /\ \E p \in req[r].left :
       LET both == table[p] # 0 /\ inward[Node(p)][req[r].row[1]] # <<>>
       IN req' = [req EXCEPT ![r].left = @ \ {p},
                             ![r].edges = IF both THEN @ \cup {<<req[r].row[1], p>>} ELSE @]
  /\ UNCHANGED <<now, changes, table, inward, routing, owner, seen>>

\* last_rebuild is the time before the graph was built.
Built(r) ==
  /\ req[r].at = "rows" /\ req[r].left = {} /\ req[r].todo = {}
  /\ routing' = [routing EXCEPT !.graph = req[r].edges, !.last = req[r].time]
  /\ req' = [req EXCEPT ![r].at = "cached", ![r].edges = {}, ![r].time = 0, ![r].row = NoNode]
  /\ UNCHANGED <<now, changes, table, inward, owner, seen>>

Key(r) == <<req[r].tar[1], req[r].src[1]>>
Paths(graph, from, to) ==
  { p \in UNION { [1..k -> Ip] : k \in 2..Cardinality(Ip) } :
      /\ p[1] = from /\ p[Len(p)] = to /\ IsInjective(p)
      /\ \A i \in 1..(Len(p) - 1) : <<p[i], p[i + 1]>> \in graph }

Return(r, ok) ==
  /\ owner' = Nobody
  /\ req' = [req EXCEPT ![r].at = "newest", ![r].ok = ok, ![r].path = <<>>, ![r].last = NoNode, ![r].hops = <<>>]

\* What was cached as failed is computed again.
Cached(r) ==
  /\ req[r].at = "cached"
  /\ IF Key(r) \in DOMAIN routing.cache /\ routing.cache[Key(r)].ok
     THEN Return(r, TRUE)
     ELSE LET paths == Paths(routing.graph, Key(r)[1], Key(r)[2]) IN
            /\ \E p \in (IF paths = {} THEN {<<>>} ELSE paths) : req' = [req EXCEPT ![r].at = "hops", ![r].path = p]
            /\ UNCHANGED owner
  /\ UNCHANGED <<now, changes, table, inward, routing, seen>>

WithRoute(cache, key, route) == [k \in DOMAIN cache \cup {key} |-> IF k = key THEN route ELSE cache[k]]

Computed(r, ok, hops) ==
  /\ routing' = [routing EXCEPT !.cache = WithRoute(@, Key(r), [ok |-> ok, hops |-> hops])]
  /\ Return(r, ok)
  /\ UNCHANGED <<now, changes, table, inward, seen>>

\* compute_routing_label: the label of a hop is what the node says of it, or, in the new way,
\* what the one before says.
Hop(last, node) ==
  IF UseOld THEN [n |-> node[1], p |-> last[1], link |-> inward[node][last[1]][1]]
  ELSE [n |-> last[1], p |-> node[1], link |-> inward[last][node[1]][1]]
HasLinks(last, node) ==
  inward[node][last[1]] # <<>> /\ (UseOld \/ inward[last][node[1]] # <<>>)

NextHop(r) ==
  /\ req[r].at = "hops" /\ req[r].path # <<>>
  /\ LET node == Node(Head(req[r].path))
         last == req[r].last IN
     IF node = NoNode \/ (last # NoNode /\ ~HasLinks(last, node)) THEN Computed(r, FALSE, <<>>)
     ELSE /\ req' = [req EXCEPT ![r].path = Tail(@), ![r].last = node,
                                ![r].hops = IF last = NoNode THEN @ ELSE Append(@, Hop(last, node))]
          /\ UNCHANGED <<now, changes, table, inward, routing, owner, seen>>

Labelled(r) ==
  /\ req[r].at = "hops" /\ req[r].path = <<>>
  /\ Computed(r, req[r].hops # <<>>, req[r].hops)

-----------------------------------------------------------------------------
(* "gr": the answer for a peer is the peering link, if both ends know it.  *)

\* Mutant of NewestOf: the oldest.
NewestOfOldest(links) ==
  CHOOSE i \in DOMAIN links : \A k \in DOMAIN links : links[i].created <= links[k].created
\* The newest of the links, the last of several that are as new.
NewestOf(links) ==
  CHOOSE i \in DOMAIN links :
    \A k \in DOMAIN links : links[k].created <= links[i].created /\ (k > i => links[k].created < links[i].created)

Newest(r) ==
  /\ req[r].at = "newest"
  /\ LET links == IF NoNode \in {req[r].tar, req[r].src} THEN <<>> ELSE inward[req[r].tar][req[r].src[1]] IN
     req' = [req EXCEPT ![r].at = "confirm",
                        ![r].peering = IF links = <<>> THEN {} ELSE {links[NewestOf(links)].label}]
  /\ UNCHANGED <<now, changes, table, inward, routing, owner, seen>>

Confirm(r) ==
  /\ req[r].at = "confirm"
  /\ req' = [req EXCEPT ![r].at = "answer",
       ![r].confirmed = /\ req[r].peering # {}
                        /\ \E i \in DOMAIN inward[req[r].src][req[r].tar[1]] :
                             inward[req[r].src][req[r].tar[1]][i].num \in req[r].peering]
  /\ UNCHANGED <<now, changes, table, inward, routing, owner, seen>>

\* No route, no answer; the label is the route's, or the peering link's.
Answer(r) ==
  /\ req[r].at = "answer"
  /\ req' = [req EXCEPT ![r].at = "done",
       ![r].label = IF ~req[r].ok THEN <<"none">>
                    ELSE IF req[r].confirmed THEN <<"peering", CHOOSE l \in req[r].peering : TRUE>>
                    ELSE <<"route">>]
  /\ UNCHANGED <<now, changes, table, inward, routing, owner, seen>>

Done(r) ==
  /\ req[r].at \in {"done", "panic"}
  /\ req' = [req EXCEPT ![r] = Resting]
  /\ UNCHANGED <<now, changes, table, inward, routing, owner, seen>>

Next ==
  \/ Tick
  \/ \E n \in Ip : Reset(n) \/ Clean(n) \/ \E p \in Ip : Announce(n, p)
  \/ \E r \in Request :
       \/ Start(r) \/ Lock(r) \/ Edge(r) \/ Built(r) \/ Cached(r)
       \/ NextHop(r) \/ Labelled(r) \/ Newest(r) \/ Confirm(r) \/ Answer(r) \/ Done(r)
       \/ \E n \in Ip : Row(r, n)

Spec == Init /\ [][Next]_vars

-----------------------------------------------------------------------------
\* The table names nodes there were, and the cache pairs of addresses.
TypeOK ==
  /\ now \in 0..MaxNow /\ changes \in 0..MaxChanges
  /\ table \in [Ip -> 0..MaxGen]
  /\ owner \in Request \cup {Nobody}
  /\ routing.last \in 0..MaxNow
  /\ \A k \in DOMAIN routing.cache : k \in Ip \X Ip

\* A route that is cached - and so every answer - leads over links that were there since the
\* last rebuild began, each as its node announced it then, even when a rebuild panics half way.
\* (get_route_impl, compute_routing_label)
RouteWasTrue ==
  \A k \in DOMAIN routing.cache :
    \A i \in DOMAIN routing.cache[k].hops :
      LET h == routing.cache[k].hops[i] IN h.link \in seen[h.n, h.p]

\* "If the RS is proposing a route OTHER than direct along the peering link, we should just send
\* the peering path instead" (service.rs): while nothing changes, a node is answered with the
\* newest link to its peer that both announced, if there is any route.
DirectToPeer ==
  \A r \in Request :
    (req[r].at = "done" /\ req[r].ok /\ req[r].began = changes /\ req[r].better # {}) =>
      req[r].label[1] = "peering" /\ req[r].label[2] \in req[r].better
=============================================================================
