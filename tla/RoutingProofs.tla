--------------------------- MODULE RoutingProofs ---------------------------
(***************************************************************************)
(* Proofs about what nodes are answered with.  A node that asks for a      *)
(* route: for any addresses, peerings, labels, requests and bounds, and    *)
(* both ways to find a hop's label.  A node that posts its credentials,    *)
(* and the nameserver (Seeding): for any nodes, posts and bounds.          *)
(***************************************************************************)
EXTENDS Routing, SublistProofs

CONSTANTS Cred, PubId, Posts, InFlight, Unfit, Result, Respond, Share, Cutoff, MaxAge,
          MaxTime,  \* MaxNow of the seeder
          MaxPeers

VARIABLES peers, post, reply, asked, cache

Seeder == INSTANCE Seeding WITH MaxNow <- MaxTime

LinkRec == [label : Label \cup {1}, num : Label \cup {1}, created : Nat]
HopRec == [n : Ip, p : Ip, link : LinkRec]
Fields == {"at", "src", "tar", "todo", "row", "left", "edges", "path", "last", "hops", "ok", "peering",
           "confirmed", "time", "label", "began", "better"}

Types ==
  /\ changes \in Nat
  /\ table \in [Ip -> 0..MaxGen]
  /\ inward \in [Nodes -> [Ip -> Seq(LinkRec)]]
  /\ DOMAIN routing = {"last", "graph", "cache"}
  /\ DOMAIN req = Request
  /\ \A r \in Request : DOMAIN req[r] = Fields

\* Links are between peers only.
Linked == \A n \in Nodes, p \in Ip : inward[n][p] # <<>> => <<n[1], p>> \in Peering

\* The links of one pair differ in their numbers and when they were made.
Apart(list, t) ==
  /\ \A i \in DOMAIN list : list[i].created <= t
  /\ \A i, j \in DOMAIN list : list[i].num = list[j].num \/ list[i].created = list[j].created => i = j
LinksApart == \A n \in Nodes, p \in Ip : Apart(inward[n][p], changes)

GraphInv == Types /\ Linked /\ LinksApart

\* Once a rebuild has begun, every first link there is has been noted.
Covered ==
  routing.graph # NoGraph \/ owner # Nobody =>
    \A e \in Peering : FirstLinks(e[1], e[2]) \subseteq seen[e]

\* Whoever builds the graph or computes a route holds the lock.
Holders == \A r \in Request : req[r].at \in {"rows", "cached", "hops"} => owner = r

\* A link that was n's first for p at some time since the last rebuild began.
True(n, p, link) == <<n, p>> \in Peering /\ link \in seen[<<n, p>>]
AllTrue(hops) == hops \in Seq(HopRec) /\ \A i \in DOMAIN hops : True(hops[i].n, hops[i].p, hops[i].link)

\* The first links of a node that was in the table since then are such, even if it is not any more.
WasThere(node) ==
  node \in Nodes /\ \A p \in Ip : inward[node][p] # <<>> => True(node[1], p, inward[node][p][1])

\* The route computed so far.
Underway(r) ==
  /\ req[r].at \in {"lock", "rows", "cached"} => req[r].last = NoNode /\ req[r].hops = <<>>
  /\ req[r].at = "hops" =>
       req[r].path \in Seq(Ip) /\ AllTrue(req[r].hops) /\ (req[r].last = NoNode \/ WasThere(req[r].last))

CacheTrue == \A k \in DOMAIN routing.cache : AllTrue(routing.cache[k].hops)

RouteInv == Covered /\ Holders /\ CacheTrue /\ \A r \in Request : Underway(r)

\* What a request will be answered with, when nothing has changed since it began.
Settled(r) == req[r].began = changes /\ req[r].at \notin {"idle", "panic"} /\ req[r].better # {}
Promise(r) ==
  /\ req[r].src \in Nodes \cup {NoNode} /\ req[r].tar \in Nodes \cup {NoNode}
  /\ req[r].began \in Nat /\ req[r].began <= changes
  /\ Settled(r) =>
       /\ req[r].better = Direct(req[r].src, req[r].tar)
       /\ req[r].at \in {"confirm", "answer"} => req[r].peering # {} /\ req[r].peering \subseteq req[r].better
       /\ req[r].at = "answer" => req[r].confirmed
       /\ req[r].at = "done" /\ req[r].ok => req[r].label[1] = "peering" /\ req[r].label[2] \in req[r].better

PromiseInv == \A r \in Request : Promise(r)

-----------------------------------------------------------------------------
(* The tables.                                                               *)

\* A node of the table is one there was.
LEMMA NodeTyped ==
  ASSUME Types, NEW n \in Ip
  PROVE  /\ table[n] # 0 => Node(n) = <<n, table[n]>> /\ Node(n) \in Nodes /\ Node(n) # NoNode
         /\ table[n] = 0 => Node(n) = NoNode
         /\ NoNode \notin Nodes
<1>1. table[n] \in 0..MaxGen
  BY DEF Types
<1> QED BY <1>1 DEF Node, Nodes, NoNode

\* Where the elements kept were in the list.
LEMMA AmongOrder ==
  ASSUME NEW T, NEW s \in Seq(T), NEW S
  PROVE  \E at \in [DOMAIN Among(s, S) -> DOMAIN s] :
           /\ \A i \in DOMAIN Among(s, S) : Among(s, S)[i] = s[at[i]]
           /\ \A i, j \in DOMAIN Among(s, S) : at[i] = at[j] => i = j
<1> DEFINE K == { i \in DOMAIN s : s[i] \in S }
           u == Among(s, S)
<1>1. u = Pick(s, K) /\ K \in SUBSET DOMAIN s
  BY DEF Among
<1>2. u \in Seq(T)
  BY AmongElements
<1> HIDE DEF K, u
<1>3. PICK at \in [DOMAIN u -> K] :
        /\ \A i \in DOMAIN u : u[i] = s[at[i]]
        /\ \A i, j \in DOMAIN u : i < j => at[i] < at[j]
  BY <1>1, PickOrder
<1>4. /\ DOMAIN u \subseteq Nat /\ \A i \in DOMAIN u : at[i] \in Nat
  <2>1. DOMAIN s \subseteq Nat /\ DOMAIN u \subseteq Nat
    BY <1>2
  <2> QED BY <1>1, <1>3, <2>1
<1>5. ASSUME NEW i \in DOMAIN u, NEW j \in DOMAIN u, at[i] = at[j]  PROVE  i = j
  BY <1>3, <1>4, <1>5
<1>6. at \in [DOMAIN u -> DOMAIN s]
  BY <1>1, <1>3
<1> QED BY <1>3, <1>5, <1>6 DEF u

\* The list of links of a pair after an announcement.
Announced(links, num, list) ==
  \/ list = Among(links, { l \in ToSet(links) : l.num # num })
  \/ \E label \in Label :
       list = IF \E i \in DOMAIN links : links[i].num = num
              THEN [i \in DOMAIN links |-> IF links[i].num = num THEN Link(label, num) ELSE links[i]]
              ELSE Append(links, Link(label, num))

LEMMA AnnouncedList ==
  ASSUME changes \in Nat, changes' = changes + 1, NEW links \in Seq(LinkRec), Apart(links, changes),
         NEW num \in Label, NEW list, Announced(links, num, list)
  PROVE  list \in Seq(LinkRec) /\ Apart(list, changes')
<1>1. \A label \in Label : /\ Link(label, num) \in LinkRec /\ Link(label, num).num = num
                           /\ Link(label, num).created = changes'
  BY DEF Link, LinkRec
<1>2. /\ \A i \in DOMAIN links : links[i] \in LinkRec /\ links[i].created \in Nat /\ links[i].created < changes'
                                 /\ links[i].created <= changes'
      /\ changes' \in Nat /\ changes' <= changes'
  <2>1. \A i \in DOMAIN links : links[i] \in LinkRec /\ links[i].created <= changes
    BY DEF Apart
  <2>2. \A l \in LinkRec : l.created \in Nat
    BY DEF LinkRec
  <2> QED BY <2>1, <2>2
<1>3. CASE list = Among(links, { l \in ToSet(links) : l.num # num })
  <2> DEFINE S == { l \in ToSet(links) : l.num # num }
  <2> HIDE DEF S
  <2>0. list = Among(links, S)
    BY <1>3 DEF S
  <2>1. list \in Seq(LinkRec)
    BY <2>0, AmongElements
  <2>2. PICK at \in [DOMAIN list -> DOMAIN links] :
          /\ \A i \in DOMAIN list : list[i] = links[at[i]]
          /\ \A i, j \in DOMAIN list : at[i] = at[j] => i = j
    BY <2>0, AmongOrder
  <2>3. \A i \in DOMAIN list : list[i].created <= changes'
    BY <1>2, <2>2
  <2>4. \A i, j \in DOMAIN list : list[i].num = list[j].num \/ list[i].created = list[j].created => i = j
    BY <2>2 DEF Apart
  <2> QED BY <2>1, <2>3, <2>4 DEF Apart
<1>4. ASSUME NEW label \in Label, \E i \in DOMAIN links : links[i].num = num,
             list = [i \in DOMAIN links |-> IF links[i].num = num THEN Link(label, num) ELSE links[i]]
      PROVE  list \in Seq(LinkRec) /\ Apart(list, changes')
  <2>1. /\ DOMAIN list = DOMAIN links
        /\ \A i \in DOMAIN links : \/ links[i].num = num /\ list[i] = Link(label, num)
                                   \/ links[i].num # num /\ list[i] = links[i]
    BY <1>4
  <2>2. \A i \in DOMAIN links : list[i] \in LinkRec
    BY <1>1, <1>2, <2>1
  <2>3. list \in Seq(LinkRec)
    <3>1. Len(links) \in Nat /\ DOMAIN links = 1..Len(links)
      OBVIOUS
    <3>2. list \in [1..Len(links) -> LinkRec]
      BY <1>4, <2>1, <2>2, <3>1
    <3> QED BY <3>1, <3>2
  <2>4. \A i \in DOMAIN list : list[i].created <= changes' /\ list[i].num = links[i].num
    BY <1>1, <1>2, <2>1
  <2>5. \A i, j \in DOMAIN list : list[i].num = list[j].num => i = j
    BY <2>1, <2>4 DEF Apart
  <2>6. ASSUME NEW i \in DOMAIN list, NEW j \in DOMAIN list, list[i].created = list[j].created  PROVE  i = j
    <3>1. CASE links[i].num = num
      <4>1. links[j].num = num
        <5> SUFFICES ASSUME links[j].num # num  PROVE  FALSE
          OBVIOUS
        <5>1. list[i].created = changes'
          BY <1>1, <2>1, <3>1
        <5>2. list[j] = links[j] /\ links[j].created < changes' /\ links[j].created \in Nat
          BY <1>2, <2>1
        <5>3. links[j].created = changes'
          BY <2>6, <5>1, <5>2
        <5> QED BY <1>2, <5>2, <5>3
      <4> QED BY <2>1, <3>1, <4>1 DEF Apart
    <3>2. CASE links[i].num # num
      <4>1. list[i] = links[i] /\ links[i].created < changes'
        BY <1>2, <2>1, <3>2
      <4>2. links[j].num # num
        <5> SUFFICES ASSUME links[j].num = num  PROVE  FALSE
          OBVIOUS
        <5>1. list[j].created = changes'
          BY <1>1, <2>1
        <5> QED BY <1>2, <2>1, <2>6, <4>1, <5>1
      <4>3. list[j] = links[j]
        BY <2>1, <4>2
      <4> QED BY <2>1, <2>6, <4>1, <4>3 DEF Apart
    <3> QED BY <3>1, <3>2
  <2> QED BY <2>3, <2>4, <2>5, <2>6 DEF Apart
<1>5. ASSUME NEW label \in Label, \A i \in DOMAIN links : links[i].num # num,
             list = Append(links, Link(label, num))
      PROVE  list \in Seq(LinkRec) /\ Apart(list, changes')
  <2>1. /\ Len(links) \in Nat /\ DOMAIN links = 1..Len(links) /\ DOMAIN list = 1..(Len(links) + 1)
        /\ list \in Seq(LinkRec) /\ list[Len(links) + 1] = Link(label, num)
        /\ \A i \in 1..Len(links) : list[i] = links[i]
    BY <1>1, <1>5
  <2>2. \A i \in DOMAIN list : \/ i \in DOMAIN links /\ list[i] = links[i]
                               \/ i = Len(links) + 1 /\ list[i] = Link(label, num)
    BY <2>1
  <2>3. \A i \in DOMAIN list : list[i].created <= changes'
    BY <1>1, <1>2, <2>2
  <2>4. ASSUME NEW i \in DOMAIN list, NEW j \in DOMAIN list,
               list[i].num = list[j].num \/ list[i].created = list[j].created
        PROVE  i = j
    <3>1. ASSUME NEW k \in DOMAIN links
          PROVE  links[k].num # Link(label, num).num /\ links[k].created # Link(label, num).created
      BY <1>1, <1>2, <1>5
    <3> QED BY <2>2, <2>4, <3>1 DEF Apart
  <2> QED BY <2>1, <2>3, <2>4 DEF Apart
<1> QED BY <1>3, <1>4, <1>5 DEF Announced

\* What an announcement does to the tables.
LEMMA AnnounceEffect ==
  ASSUME GraphInv, NEW n \in Ip, NEW p \in Ip, Announce(n, p)
  PROVE  /\ <<n, p>> \in Peering /\ Node(n) \in Nodes /\ table[n] # 0
         /\ \E list \in Seq(LinkRec) : /\ inward' = [inward EXCEPT ![Node(n)][p] = list]
                                       /\ Apart(list, changes')
         /\ changes' = changes + 1 /\ seen' = SeenToo /\ UNCHANGED <<now, table, routing, owner, req>>
<1>1. /\ <<n, p>> \in Peering /\ table[n] # 0 /\ Node(n) \in Nodes
      /\ changes' = changes + 1 /\ seen' = SeenToo /\ UNCHANGED <<now, table, routing, owner, req>>
  BY NodeTyped DEF Announce, GraphInv
<1>2. inward[Node(n)][p] \in Seq(LinkRec) /\ Apart(inward[Node(n)][p], changes) /\ changes \in Nat
  BY <1>1 DEF GraphInv, Types, LinksApart
<1>3. PICK num \in Label :
        \E list : Announced(inward[Node(n)][p], num, list) /\ inward' = [inward EXCEPT ![Node(n)][p] = list]
  BY DEF Announce, Announced
<1>4. PICK list : Announced(inward[Node(n)][p], num, list) /\ inward' = [inward EXCEPT ![Node(n)][p] = list]
  BY <1>3
<1>5. list \in Seq(LinkRec) /\ Apart(list, changes')
  BY <1>1, <1>2, <1>4, AnnouncedList
<1> QED BY <1>1, <1>4, <1>5

\* What the steps of a request do to the rest.
RequestStep(r) ==
  \/ Start(r) \/ Lock(r) \/ Edge(r) \/ Built(r) \/ Cached(r) \/ NextHop(r) \/ Labelled(r) \/ Newest(r)
  \/ Confirm(r) \/ Answer(r) \/ Done(r) \/ \E n \in Ip : Row(r, n)

LEMMA OnlyRequest ==
  ASSUME Types, NEW r \in Request, RequestStep(r)
  PROVE  /\ UNCHANGED <<changes, table, inward>> /\ (seen' = seen \/ Lock(r))
         /\ DOMAIN routing' = DOMAIN routing
         /\ DOMAIN req' = Request /\ DOMAIN req'[r] = Fields
         /\ \A s \in Request : s # r => req'[s] = req[s]
<1> DEFINE Moves ==
  /\ UNCHANGED <<changes, table, inward>> /\ (seen' = seen \/ Lock(r))
  /\ DOMAIN routing' = DOMAIN routing
  /\ DOMAIN req' = Request /\ DOMAIN req'[r] = Fields
  /\ \A s \in Request : s # r => req'[s] = req[s]
<1> SUFFICES Moves
  OBVIOUS
<1>0. DOMAIN req = Request /\ DOMAIN req[r] = Fields /\ DOMAIN routing = {"last", "graph", "cache"}
  BY DEF Types
<1>1. DOMAIN Resting = Fields
  BY DEF Resting, Fields
<1>2. CASE Start(r)
  <2> DEFINE begun(src, tar) == [Resting EXCEPT !.src = src, !.tar = tar, !.began = changes, !.better = Direct(src, tar)]
             ends(src, tar) == IF NoNode \in {src, tar} THEN [begun(src, tar) EXCEPT !.at = "newest"]
                               ELSE IF src = tar THEN [begun(src, tar) EXCEPT !.at = "newest", !.ok = TRUE]
                               ELSE [begun(src, tar) EXCEPT !.at = "lock"]
  <2>1. PICK q \in Asked : req' = [req EXCEPT ![r] = ends(Node(q.src), Node(q.tar))]
    BY <1>2 DEF Start
  <2>2. \A src, tar : DOMAIN ends(src, tar) = Fields
    BY <1>1 DEF Fields
  <2> HIDE DEF ends
  <2> QED BY <1>0, <1>2, <2>1, <2>2 DEF Start
<1>3. CASE Lock(r)
  BY <1>0, <1>3 DEF Lock
<1>4. CASE Edge(r)
  BY <1>0, <1>4 DEF Edge
<1>5. CASE Built(r)
  BY <1>0, <1>5 DEF Built
<1>6. CASE Cached(r)
  BY <1>0, <1>6 DEF Cached, Return
<1>7. CASE NextHop(r)
  BY <1>0, <1>7 DEF NextHop, Computed, Return
<1>8. CASE Labelled(r)
  BY <1>0, <1>8 DEF Labelled, Computed, Return
<1>9. CASE Newest(r) \/ Confirm(r) \/ Answer(r)
  BY <1>0, <1>9 DEF Newest, Confirm, Answer
<1>10. CASE Done(r)
  BY <1>0, <1>1, <1>10 DEF Done
<1>11. ASSUME NEW n \in Ip, Row(r, n)  PROVE  Moves
  <2>1. CASE table[n] = 0
    <3>1. req' = [req EXCEPT ![r] = [Resting EXCEPT !.at = "panic"]]
      BY <1>11, <2>1 DEF Row
    <3> QED BY <1>0, <1>1, <1>11, <3>1 DEF Row
  <2>2. CASE table[n] # 0
    BY <1>0, <1>11, <2>2 DEF Row
  <2> QED BY <2>1, <2>2
<1>12. CASE \E n \in Ip : Row(r, n)
  BY <1>11, <1>12
<1> HIDE DEF Moves
<1> QED BY <1>2, <1>3, <1>4, <1>5, <1>6, <1>7, <1>8, <1>9, <1>10, <1>12 DEF RequestStep

\* The steps are those of a request, the changes of the tables and the clock's.
LEMMA Steps ==
  ASSUME [Next]_vars
  PROVE  \/ \E n, p \in Ip : Announce(n, p)
         \/ \E n \in Ip : Reset(n) \/ Clean(n)
         \/ \E r \in Request : RequestStep(r)
         \/ UNCHANGED <<changes, table, inward, routing, owner, req, seen>>
BY DEF Next, RequestStep, Tick, vars

LEMMA GraphInductive ==
  ASSUME MaxGen \in Nat, GraphInv, [Next]_vars
  PROVE  GraphInv'
<1> USE DEF GraphInv
<1>0. \A n \in Nodes, p \in Ip : inward[n][p] \in Seq(LinkRec) /\ Apart(inward[n][p], changes)
  BY DEF Types, LinksApart
<1>1. ASSUME UNCHANGED <<changes, table, inward>>, DOMAIN routing' = DOMAIN routing, DOMAIN req' = Request,
             \A s \in Request : DOMAIN req'[s] = Fields
      PROVE  GraphInv'
  BY <1>1 DEF Types, Linked, LinksApart
<1>2. ASSUME NEW list \in Seq(LinkRec), Apart(list, changes)  PROVE  Apart(list, changes + 1)
  <2>1. \A i \in DOMAIN list : list[i] \in LinkRec /\ list[i].created <= changes
    BY <1>2 DEF Apart
  <2>2. changes \in Nat /\ \A l \in LinkRec : l.created \in Nat
    BY DEF LinkRec, Types
  <2>3. \A i \in DOMAIN list : list[i].created <= changes + 1
    BY <2>1, <2>2
  <2> QED BY <1>2, <2>3 DEF Apart
<1>3. ASSUME NEW n \in Ip, NEW p \in Ip, Announce(n, p)  PROVE  GraphInv'
  <2>1. /\ <<n, p>> \in Peering /\ Node(n) \in Nodes
        /\ changes' = changes + 1 /\ UNCHANGED <<table, routing, req>>
    BY <1>3, AnnounceEffect
  <2>2. PICK list \in Seq(LinkRec) : inward' = [inward EXCEPT ![Node(n)][p] = list] /\ Apart(list, changes')
    BY <1>3, AnnounceEffect
  <2>3. Node(n)[1] = n
    BY <2>1, NodeTyped DEF Node, NoNode
  <2>4. inward' \in [Nodes -> [Ip -> Seq(LinkRec)]]
    BY <2>1, <2>2 DEF Types
  <2>5. \A m \in Nodes, q \in Ip :
          \/ m = Node(n) /\ q = p /\ inward'[m][q] = list
          \/ inward'[m][q] = inward[m][q]
    BY <2>1, <2>2 DEF Types
  <2>6. Types'
    BY <2>1, <2>4 DEF Types
  <2>7. Linked'
    BY <2>1, <2>3, <2>5 DEF Linked
  <2>8. LinksApart'
    <3>1. \A m \in Nodes, q \in Ip : Apart(inward[m][q], changes')
      BY <1>0, <1>2, <2>1
    <3> QED BY <2>2, <2>5, <3>1 DEF LinksApart
  <2> QED BY <2>6, <2>7, <2>8
<1>4. ASSUME NEW n \in Ip, Reset(n) \/ Clean(n)  PROVE  GraphInv'
  <2>1. changes' = changes + 1 /\ UNCHANGED <<inward, routing, req>>
    BY <1>4 DEF Reset, Clean
  <2>2. table' \in [Ip -> 0..MaxGen]
    <3>1. CASE Reset(n)
      <4>1. table[n] \in 1..(MaxGen - 1) /\ table' = [table EXCEPT ![n] = table[n] + 1]
        BY <3>1 DEF Reset
      <4>2. table[n] \in 0..MaxGen /\ table \in [Ip -> 0..MaxGen]
        BY DEF Types
      <4>3. table[n] + 1 \in 0..MaxGen
        BY <4>1, <4>2
      <4> QED BY <4>1, <4>2, <4>3
    <3>2. CASE Clean(n)
      <4>1. table' = [table EXCEPT ![n] = 0] /\ table \in [Ip -> 0..MaxGen] /\ table[n] \in 0..MaxGen
        BY <3>2 DEF Clean, Types
      <4>2. 0 \in 0..MaxGen
        BY <4>1
      <4> QED BY <4>1, <4>2
    <3> QED BY <1>4, <3>1, <3>2
  <2>3. Types'
    BY <2>1, <2>2 DEF Types
  <2>4. Linked'
    BY <2>1 DEF Linked
  <2>5. LinksApart'
    BY <1>0, <1>2, <2>1 DEF LinksApart
  <2> QED BY <2>3, <2>4, <2>5
<1>5. ASSUME NEW r \in Request, RequestStep(r)  PROVE  GraphInv'
  BY <1>1, <1>5, OnlyRequest DEF Types
<1>6. CASE UNCHANGED <<changes, table, inward, routing, owner, req, seen>>
  BY <1>1, <1>6 DEF Types
<1> QED BY <1>3, <1>4, <1>5, <1>6, Steps

-----------------------------------------------------------------------------
(* Routes lead over links there were.                                        *)

\* Everything noted stays noted: a route that was true is.
LEMMA TrueStays ==
  ASSUME \A e \in Peering : seen[e] \subseteq seen'[e]
  PROVE  /\ \A n, p, l : True(n, p, l) => True(n, p, l)'
         /\ \A hops : AllTrue(hops) => AllTrue(hops)'
BY DEF True, AllTrue

\* The tables change, and what was the first link of a pair for a while is noted.
LEMMA TablesMove ==
  ASSUME RouteInv, Covered', \A e \in Peering : seen[e] \subseteq seen'[e],
         \A node : WasThere(node) => WasThere(node)',
         UNCHANGED <<routing, owner, req>>
  PROVE  RouteInv'
<1>1. CacheTrue' /\ Holders'
  BY TrueStays DEF RouteInv, CacheTrue, Holders
<1>2. ASSUME NEW r \in Request  PROVE  Underway(r)'
  BY TrueStays DEF RouteInv, Underway
<1> QED BY <1>1, <1>2 DEF RouteInv

\* An announcement, a reset or the cleaner changes the tables.
LEMMA TablesKeep ==
  ASSUME MaxGen \in Nat, Peering \subseteq Ip \X Ip, GraphInv, RouteInv, NEW n \in Ip,
         (\E p \in Ip : Announce(n, p)) \/ Reset(n) \/ Clean(n)
  PROVE  RouteInv'
<1>0. table \in [Ip -> 0..MaxGen] /\ inward \in [Nodes -> [Ip -> Seq(LinkRec)]]
  BY DEF GraphInv, Types
<1>1. ASSUME seen' = SeenToo
      PROVE  /\ \A e \in Peering : seen[e] \subseteq seen'[e]
             /\ \A e \in Peering : FirstLinks(e[1], e[2])' \subseteq seen'[e]
             /\ Covered'
  BY <1>1 DEF SeenToo, Covered
<1>2. ASSUME NEW p \in Ip, Announce(n, p)  PROVE  RouteInv'
  <2>1. /\ <<n, p>> \in Peering /\ Node(n) \in Nodes /\ table[n] # 0
        /\ seen' = SeenToo /\ UNCHANGED <<table, routing, owner, req>>
    BY <1>2, AnnounceEffect
  <2>2. PICK list \in Seq(LinkRec) : inward' = [inward EXCEPT ![Node(n)][p] = list]
    BY <1>2, AnnounceEffect
  <2>3. \A m \in Nodes, q \in Ip :
          \/ m = Node(n) /\ q = p /\ inward'[m][q] = list
          \/ inward'[m][q] = inward[m][q]
    BY <1>0, <2>1, <2>2
  <2>4. Node(n)' = Node(n) /\ Node(n)[1] = n /\ inward'[Node(n)][p] = list
    <3>1. Node(n)' = Node(n) /\ Node(n) = <<n, table[n]>>
      BY <2>1 DEF Node
    <3> QED BY <1>0, <2>1, <2>2, <3>1
  <2>5. \A l : list # <<>> /\ l = list[1] => True(n, p, l)'
    <3> SUFFICES ASSUME list # <<>>, NEW l, l = list[1]  PROVE  True(n, p, l)'
      OBVIOUS
    <3>1. FirstLinks(n, p)' = {list[1]}
      BY <2>1, <2>4 DEF FirstLinks
    <3>2. FirstLinks(n, p)' \subseteq seen'[<<n, p>>]
      BY <1>1, <2>1
    <3> QED BY <2>1, <3>1, <3>2 DEF True
  <2>6. ASSUME NEW node, WasThere(node)  PROVE  WasThere(node)'
    <3>1. node \in Nodes
      BY <2>6 DEF WasThere
    <3>2. ASSUME NEW q \in Ip, inward'[node][q] # <<>>, NEW l, l = inward'[node][q][1]
          PROVE  True(node[1], q, l)'
      <4>1. CASE node = Node(n) /\ q = p /\ inward'[node][q] = list
        BY <2>4, <2>5, <3>2, <4>1
      <4>2. CASE inward'[node][q] = inward[node][q]
        <5>1. True(node[1], q, l)
          BY <2>6, <3>2, <4>2 DEF WasThere
        <5> QED BY <1>1, <2>1, <5>1, TrueStays
      <4> QED BY <2>3, <3>1, <4>1, <4>2
    <3> QED BY <3>1, <3>2 DEF WasThere
  <2> QED BY <1>1, <2>1, <2>6, TablesMove
<1>3. ASSUME inward' = inward, \A e \in Peering : seen[e] \subseteq seen'[e]
      PROVE  \A node : WasThere(node) => WasThere(node)'
  BY <1>3 DEF WasThere, True
<1>4. CASE Reset(n)
  <2>1. seen' = SeenToo /\ UNCHANGED <<inward, routing, owner, req>>
    BY <1>4 DEF Reset
  <2> QED BY <1>1, <1>3, <2>1, TablesMove
<1>5. CASE Clean(n)
  <2>1. table' = [table EXCEPT ![n] = 0] /\ UNCHANGED <<inward, routing, owner, req, seen>>
    BY <1>5 DEF Clean
  <2>2. \A a, b : a \in Ip => FirstLinks(a, b)' \subseteq FirstLinks(a, b)
    BY <1>0, <2>1 DEF FirstLinks, Node
  <2>3. Covered'
    BY <2>1, <2>2 DEF RouteInv, Covered
  <2> QED BY <1>3, <2>1, <2>3, TablesMove
<1> QED BY <1>2, <1>4, <1>5

\* With the tables and what was noted as they are, nothing else about links and routes changes.
LEMMA SameTruth ==
  ASSUME UNCHANGED <<table, inward, seen>>
  PROVE  /\ \A node : WasThere(node) <=> WasThere(node)'
         /\ \A hops : AllTrue(hops) <=> AllTrue(hops)'
BY DEF WasThere, AllTrue, True

\* A request moves on: it takes the lock, has it, gives it back, or does without.
LEMMA RequestMoves ==
  ASSUME RouteInv, Nobody \notin Request, NEW r \in Request, UNCHANGED <<table, inward, seen>>,
         \A s \in Request : s # r => req'[s] = req[s],
         owner' = owner \/ (owner \in {r, Nobody} /\ owner' \in {r, Nobody}),
         routing'.graph # NoGraph \/ owner' # Nobody => routing.graph # NoGraph \/ owner # Nobody,
         req'[r].at \in {"rows", "cached", "hops"} => owner' = r,
         CacheTrue', Underway(r)'
  PROVE  RouteInv'
<1>1. Covered'
  BY DEF RouteInv, Covered, FirstLinks, Node
<1>2. Holders'
  BY DEF RouteInv, Holders
<1>3. ASSUME NEW s \in Request, s # r  PROVE  Underway(s)'
  <2>1. Underway(s) /\ req'[s] = req[s]
    BY <1>3 DEF RouteInv
  <2> QED BY <2>1, SameTruth DEF Underway
<1> QED BY <1>1, <1>2, <1>3 DEF RouteInv

\* ... with the same routes cached, and not yet or no more on its way along a path.
LEMMA RequestRests ==
  ASSUME RouteInv, Nobody \notin Request, NEW r \in Request, UNCHANGED <<table, inward, routing, seen>>,
         \A s \in Request : s # r => req'[s] = req[s],
         owner' = owner \/ (owner = r /\ owner' = Nobody),
         req'[r].at \in {"rows", "cached"} => owner' = r,
         req'[r].at # "hops",
         req'[r].at \in {"lock", "rows", "cached"} => req'[r].last = NoNode /\ req'[r].hops = <<>>
  PROVE  RouteInv'
<1>1. CacheTrue'
  BY SameTruth DEF RouteInv, CacheTrue
<1>2. Underway(r)'
  BY DEF Underway
<1>3. owner' = owner \/ (owner \in {r, Nobody} /\ owner' \in {r, Nobody})
  OBVIOUS
<1>4. routing'.graph # NoGraph \/ owner' # Nobody => routing.graph # NoGraph \/ owner # Nobody
  OBVIOUS
<1> QED BY <1>1, <1>2, <1>3, <1>4, RequestMoves

\* The lock is taken, and a rebuild begins or the graph is used as it is.
LEMMA LockKeeps ==
  ASSUME Types, RouteInv, Nobody \notin Request, NEW r \in Request, Lock(r)
  PROVE  RouteInv'
<1>0. /\ DOMAIN req = Request /\ DOMAIN req[r] = Fields /\ DOMAIN routing = {"last", "graph", "cache"}
      /\ \A s \in Request : s # r => req'[s] = req[s]
  BY OnlyRequest DEF Types, RequestStep
<1>1. /\ req[r].at = "lock" /\ owner = Nobody /\ owner' = r /\ UNCHANGED <<table, inward>>
      /\ req[r].last = NoNode /\ req[r].hops = <<>>
  BY DEF Lock, RouteInv, Underway
<1>2. CASE routing.last + Interval < now \/ routing.graph = NoGraph
  <2>1. /\ routing'.cache = <<>> /\ seen' = [e \in Peering |-> FirstLinks(e[1], e[2])]
        /\ req'[r].at = "rows" /\ req'[r].last = NoNode /\ req'[r].hops = <<>>
    BY <1>0, <1>1, <1>2 DEF Lock, Fields, Cleared
  <2>2. Covered'
    BY <1>1, <2>1 DEF Covered, FirstLinks, Node
  <2>3. Holders'
    BY <1>0, <1>1 DEF RouteInv, Holders
  <2>4. CacheTrue'
    <3>1. DOMAIN routing'.cache = {}
      BY <2>1
    <3> QED BY <3>1 DEF CacheTrue
  <2>5. ASSUME NEW s \in Request  PROVE  Underway(s)'
    <3>1. CASE s = r
      BY <2>1, <3>1 DEF Underway
    <3>2. CASE s # r
      <4>1. req'[s] = req[s] /\ req[s].at # "hops" /\ Underway(s)
        BY <1>0, <1>1, <3>2 DEF RouteInv, Holders
      <4> QED BY <4>1 DEF Underway
    <3> QED BY <3>1, <3>2
  <2> QED BY <2>2, <2>3, <2>4, <2>5 DEF RouteInv
<1>3. CASE ~(routing.last + Interval < now \/ routing.graph = NoGraph)
  <2>1. /\ UNCHANGED <<routing, seen>>
        /\ req'[r].at = "cached" /\ req'[r].last = NoNode /\ req'[r].hops = <<>>
    BY <1>0, <1>1, <1>3 DEF Lock, Fields
  <2>2. CacheTrue' /\ Underway(r)'
    BY <1>1, <2>1, SameTruth DEF RouteInv, CacheTrue, Underway
  <2>3. routing.graph # NoGraph /\ owner \in {r, Nobody} /\ owner' \in {r, Nobody}
    BY <1>1, <1>3
  <2> QED BY <1>0, <1>1, <2>1, <2>2, <2>3, RequestMoves
<1> QED BY <1>2, <1>3

\* A route is found or not, is cached, and the lock is free.
LEMMA ComputedKeeps ==
  ASSUME Types, RouteInv, Nobody \notin Request, NEW r \in Request, owner = r, UNCHANGED seen,
         NEW ok, NEW hops, AllTrue(hops), Computed(r, ok, hops)
  PROVE  RouteInv'
<1>0. DOMAIN req = Request /\ DOMAIN req[r] = Fields /\ DOMAIN routing = {"last", "graph", "cache"}
  BY DEF Types
<1>1. /\ UNCHANGED <<table, inward>> /\ owner' = Nobody /\ req'[r].at = "newest"
      /\ \A s \in Request : s # r => req'[s] = req[s]
      /\ routing'.cache = WithRoute(routing.cache, Key(r), [ok |-> ok, hops |-> hops])
      /\ routing'.graph = routing.graph
  BY <1>0 DEF Computed, Return, Fields
<1>2. CacheTrue'
  <2>0. ASSUME NEW k \in DOMAIN routing'.cache, NEW hs, hs = routing'.cache[k].hops  PROVE  AllTrue(hs)'
    <3>1. \/ routing'.cache[k] = [ok |-> ok, hops |-> hops]
          \/ k \in DOMAIN routing.cache /\ routing'.cache[k] = routing.cache[k]
      BY <1>1, <2>0 DEF WithRoute
    <3>2. AllTrue(hs)
      BY <2>0, <3>1 DEF RouteInv, CacheTrue
    <3> QED BY <1>1, <3>2, SameTruth
  <2> QED BY <2>0 DEF CacheTrue
<1>3. Underway(r)'
  BY <1>1 DEF Underway
<1> QED BY <1>0, <1>1, <1>2, <1>3, RequestMoves

\* The first links of a node in the table have been noted while the lock is held.
LEMMA TableWasThere ==
  ASSUME GraphInv, RouteInv, owner # Nobody, NEW n \in Ip, table[n] # 0
  PROVE  WasThere(Node(n))
<1>1. Node(n) = <<n, table[n]>> /\ Node(n) \in Nodes
  BY NodeTyped DEF GraphInv
<1>2. ASSUME NEW p \in Ip, inward[Node(n)][p] # <<>>  PROVE  True(n, p, inward[Node(n)][p][1])
  <2>1. <<n, p>> \in Peering
    BY <1>1, <1>2 DEF GraphInv, Linked
  <2>2. FirstLinks(n, p) \subseteq seen[<<n, p>>]
    BY <2>1 DEF RouteInv, Covered
  <2> QED BY <1>2, <2>1, <2>2 DEF FirstLinks, True
<1> QED BY <1>1, <1>2 DEF WasThere

\* A hop between two such nodes is over such a link.
LEMMA HopTrue ==
  ASSUME GraphInv, NEW last, NEW node, WasThere(last), WasThere(node), HasLinks(last, node)
  PROVE  Hop(last, node) \in HopRec /\ True(Hop(last, node).n, Hop(last, node).p, Hop(last, node).link)
<1>1. /\ last \in Nodes /\ node \in Nodes /\ last[1] \in Ip /\ node[1] \in Ip
  BY DEF WasThere, Nodes
<1>2. ASSUME NEW a \in Nodes, NEW b \in Nodes, inward[a][b[1]] # <<>>  PROVE  inward[a][b[1]][1] \in LinkRec
  <2>1. inward[a][b[1]] \in Seq(LinkRec)
    BY DEF GraphInv, Types, Nodes
  <2> QED BY <1>2, <2>1
<1>3. CASE UseOld
  <2>1. Hop(last, node) = [n |-> node[1], p |-> last[1], link |-> inward[node][last[1]][1]]
    BY <1>3 DEF Hop
  <2>2. inward[node][last[1]] # <<>>
    BY DEF HasLinks
  <2> QED BY <1>1, <1>2, <2>1, <2>2 DEF WasThere, HopRec
<1>4. CASE ~UseOld
  <2>1. Hop(last, node) = [n |-> last[1], p |-> node[1], link |-> inward[last][node[1]][1]]
    BY <1>4 DEF Hop
  <2>2. inward[last][node[1]] # <<>>
    BY <1>4 DEF HasLinks
  <2> QED BY <1>1, <1>2, <2>1, <2>2 DEF WasThere, HopRec
<1> QED BY <1>3, <1>4

\* The next node of the path, or the end of the route if it or a link is gone.
LEMMA NextHopKeeps ==
  ASSUME GraphInv, RouteInv, Nobody \notin Request, NEW r \in Request, NextHop(r)
  PROVE  RouteInv'
<1> DEFINE node == Node(Head(req[r].path))
           last == req[r].last
<1>0. Types /\ DOMAIN req = Request /\ DOMAIN req[r] = Fields
  BY DEF GraphInv, Types
<1>1. /\ req[r].at = "hops" /\ req[r].path # <<>> /\ owner = r /\ owner # Nobody
      /\ req[r].path \in Seq(Ip) /\ AllTrue(req[r].hops) /\ (last = NoNode \/ WasThere(last))
  BY DEF NextHop, RouteInv, Holders, Underway
<1>2. Head(req[r].path) \in Ip /\ Tail(req[r].path) \in Seq(Ip)
  BY <1>1
<1>3. CASE Computed(r, FALSE, <<>>)
  <2>1. AllTrue(<<>>)
    BY DEF AllTrue
  <2>2. UNCHANGED seen
    BY <1>3 DEF Computed
  <2> QED BY <1>0, <1>1, <1>3, <2>1, <2>2, ComputedKeeps
<1>4. CASE ~Computed(r, FALSE, <<>>)
  <2>1. /\ node # NoNode /\ (last = NoNode \/ HasLinks(last, node))
        /\ req' = [req EXCEPT ![r].path = Tail(@), ![r].last = node,
                              ![r].hops = IF last = NoNode THEN @ ELSE Append(@, Hop(last, node))]
        /\ UNCHANGED <<now, changes, table, inward, routing, owner, seen>>
    BY <1>4 DEF NextHop
  <2>2. /\ req'[r].at = "hops" /\ req'[r].path = Tail(req[r].path) /\ req'[r].last = node
        /\ req'[r].hops = IF last = NoNode THEN req[r].hops ELSE Append(req[r].hops, Hop(last, node))
        /\ \A s \in Request : s # r => req'[s] = req[s]
    BY <1>0, <1>1, <2>1 DEF Fields
  <2>3. WasThere(node)
    <3>1. table[Head(req[r].path)] # 0
      BY <1>0, <1>2, <2>1, NodeTyped
    <3> QED BY <1>1, <1>2, <3>1, TableWasThere
  <2>4. AllTrue(req'[r].hops)
    <3>1. CASE last = NoNode
      BY <1>1, <2>2, <3>1
    <3>2. CASE last # NoNode
      <4> DEFINE hops == req[r].hops
                 hop == Hop(last, node)
                 all == Append(hops, hop)
      <4>1. hop \in HopRec /\ True(hop.n, hop.p, hop.link)
        BY <1>1, <2>1, <2>3, <3>2, HopTrue
      <4>2. hops \in Seq(HopRec) /\ \A i \in DOMAIN hops : True(hops[i].n, hops[i].p, hops[i].link)
        BY <1>1 DEF AllTrue
      <4> HIDE DEF hop, hops
      <4>3. /\ all \in Seq(HopRec)
            /\ \A i \in DOMAIN all : (i \in DOMAIN hops /\ all[i] = hops[i]) \/ all[i] = hop
        BY <4>1, <4>2
      <4>4. \A i \in DOMAIN all : True(all[i].n, all[i].p, all[i].link)
        BY <4>1, <4>2, <4>3
      <4>5. AllTrue(all)
        BY <4>3, <4>4 DEF AllTrue
      <4> QED BY <2>2, <3>2, <4>5 DEF hop, hops
    <3> QED BY <3>1, <3>2
  <2>5. Underway(r)'
    <3>1. ASSUME NEW hs, hs = req'[r].hops  PROVE  AllTrue(hs)'
      BY <2>1, <2>4, <3>1, SameTruth
    <3>2. ASSUME NEW m, m = req'[r].last  PROVE  WasThere(m)'
      BY <2>1, <2>2, <2>3, <3>2, SameTruth
    <3> QED BY <1>2, <2>2, <3>1, <3>2 DEF Underway
  <2>6. CacheTrue'
    BY <2>1, SameTruth DEF RouteInv, CacheTrue
  <2> QED BY <1>1, <2>1, <2>2, <2>5, <2>6, RequestMoves
<1> QED BY <1>3, <1>4

\* What a request does before and after it has the graph.
LEMMA StartKeeps ==
  ASSUME Types, RouteInv, Nobody \notin Request, NEW r \in Request, Start(r)
  PROVE  RouteInv'
<1> DEFINE begun(src, tar) == [Resting EXCEPT !.src = src, !.tar = tar, !.began = changes, !.better = Direct(src, tar)]
           ends(src, tar) == IF NoNode \in {src, tar} THEN [begun(src, tar) EXCEPT !.at = "newest"]
                             ELSE IF src = tar THEN [begun(src, tar) EXCEPT !.at = "newest", !.ok = TRUE]
                             ELSE [begun(src, tar) EXCEPT !.at = "lock"]
<1>1. PICK q \in Asked : req' = [req EXCEPT ![r] = ends(Node(q.src), Node(q.tar))]
  BY DEF Start
<1>2. \A src, tar : /\ ends(src, tar).at \in {"newest", "lock"}
                    /\ ends(src, tar).last = NoNode /\ ends(src, tar).hops = <<>>
  BY DEF Resting
<1> HIDE DEF ends
<1>3. req'[r].at \in {"newest", "lock"} /\ req'[r].last = NoNode /\ req'[r].hops = <<>>
  BY <1>1, <1>2 DEF Types
<1>4. UNCHANGED <<table, inward, routing, seen, owner>> /\ \A s \in Request : s # r => req'[s] = req[s]
  BY <1>1 DEF Start
<1> QED BY <1>3, <1>4, RequestRests

LEMMA RowKeeps ==
  ASSUME Types, RouteInv, Nobody \notin Request, NEW r \in Request, NEW n \in Ip, Row(r, n)
  PROVE  RouteInv'
<1>0. DOMAIN req = Request /\ DOMAIN req[r] = Fields
  BY DEF Types
<1>1. /\ req[r].at = "rows" /\ owner = r /\ req[r].last = NoNode /\ req[r].hops = <<>>
      /\ UNCHANGED <<table, inward, routing, seen>>
  BY DEF Row, RouteInv, Holders, Underway
<1>2. \A s \in Request : s # r => req'[s] = req[s]
  BY OnlyRequest DEF RequestStep
<1>3. CASE table[n] = 0
  <2>1. req' = [req EXCEPT ![r] = [Resting EXCEPT !.at = "panic"]] /\ owner' = Nobody
    BY <1>3 DEF Row
  <2>2. req'[r].at = "panic"
    BY <1>0, <2>1 DEF Resting
  <2> QED BY <1>1, <1>2, <2>1, <2>2, RequestRests
<1>4. CASE table[n] # 0
  <2>1. owner' = owner /\ req'[r].at = "rows" /\ req'[r].last = NoNode /\ req'[r].hops = <<>>
    BY <1>0, <1>1, <1>4 DEF Row, Fields
  <2> QED BY <1>1, <1>2, <2>1, RequestRests
<1> QED BY <1>3, <1>4

LEMMA EdgeKeeps ==
  ASSUME Types, RouteInv, Nobody \notin Request, NEW r \in Request, Edge(r)
  PROVE  RouteInv'
<1>1. /\ req[r].at = "rows" /\ owner = r /\ req[r].last = NoNode /\ req[r].hops = <<>>
      /\ UNCHANGED <<table, inward, routing, seen, owner>>
  BY DEF Edge, RouteInv, Holders, Underway
<1>2. \A s \in Request : s # r => req'[s] = req[s]
  BY OnlyRequest DEF RequestStep
<1>3. req'[r].at = "rows" /\ req'[r].last = NoNode /\ req'[r].hops = <<>>
  BY <1>1 DEF Edge, Types, Fields
<1> QED BY <1>1, <1>3, <1>2, RequestRests

LEMMA BuiltKeeps ==
  ASSUME Types, RouteInv, Nobody \notin Request, NEW r \in Request, Built(r)
  PROVE  RouteInv'
<1>0. DOMAIN req = Request /\ DOMAIN req[r] = Fields /\ DOMAIN routing = {"last", "graph", "cache"}
  BY DEF Types
<1>1. /\ req[r].at = "rows" /\ owner = r /\ req[r].last = NoNode /\ req[r].hops = <<>>
      /\ UNCHANGED <<table, inward, seen, owner>>
  BY DEF Built, RouteInv, Holders, Underway
<1>2. \A s \in Request : s # r => req'[s] = req[s]
  BY OnlyRequest DEF RequestStep
<1>3. /\ req'[r].at = "cached" /\ req'[r].last = NoNode /\ req'[r].hops = <<>>
      /\ routing'.cache = routing.cache
  BY <1>0, <1>1 DEF Built, Fields
<1>4. CacheTrue' /\ Underway(r)'
  BY <1>1, <1>3, SameTruth DEF RouteInv, CacheTrue, Underway
<1>5. owner # Nobody
  BY <1>1
<1> QED BY <1>1, <1>3, <1>4, <1>5, <1>2, RequestMoves

LEMMA CachedKeeps ==
  ASSUME Types, RouteInv, Nobody \notin Request, NEW r \in Request, Cached(r)
  PROVE  RouteInv'
<1>0. DOMAIN req = Request /\ DOMAIN req[r] = Fields
  BY DEF Types
<1>1. /\ req[r].at = "cached" /\ owner = r /\ req[r].last = NoNode /\ req[r].hops = <<>>
      /\ UNCHANGED <<table, inward, routing, seen>>
  BY DEF Cached, RouteInv, Holders, Underway
<1>2. CASE Return(r, TRUE)
  <2>1. /\ owner' = Nobody /\ req'[r].at = "newest"
        /\ \A s \in Request : s # r => req'[s] = req[s]
    BY <1>0, <1>2 DEF Return, Fields
  <2> QED BY <1>1, <2>1, RequestRests
<1>3. CASE ~Return(r, TRUE)
  <2> DEFINE paths == Paths(routing.graph, Key(r)[1], Key(r)[2])
  <2>1. PICK p \in (IF paths = {} THEN {<<>>} ELSE paths) : req' = [req EXCEPT ![r].at = "hops", ![r].path = p]
    BY <1>3 DEF Cached
  <2>2. owner' = owner
    BY <1>3 DEF Cached
  <2>3. p \in Seq(Ip)
    <3>1. CASE p = <<>>
      BY <3>1
    <3>2. CASE p \in paths
      <4>1. PICK k \in 2..Cardinality(Ip) : p \in [1..k -> Ip]
        BY <3>2 DEF Paths
      <4>2. k \in Nat
        BY <4>1
      <4> QED BY <4>1, <4>2
    <3> QED BY <2>1, <3>1, <3>2
  <2>4. /\ req'[r].at = "hops" /\ req'[r].path = p /\ req'[r].last = NoNode /\ req'[r].hops = <<>>
        /\ \A s \in Request : s # r => req'[s] = req[s]
    BY <1>0, <1>1, <2>1 DEF Fields
  <2>5. ASSUME NEW hs, hs = <<>>  PROVE  AllTrue(hs)'
    BY <2>5 DEF AllTrue
  <2>6. Underway(r)'
    BY <2>3, <2>4, <2>5 DEF Underway
  <2>7. CacheTrue'
    BY <1>1, SameTruth DEF RouteInv, CacheTrue
  <2> QED BY <1>1, <2>2, <2>4, <2>6, <2>7, RequestMoves
<1> QED BY <1>2, <1>3

LEMMA LabelledKeeps ==
  ASSUME Types, RouteInv, Nobody \notin Request, NEW r \in Request, Labelled(r)
  PROVE  RouteInv'
<1>1. /\ owner = r /\ AllTrue(req[r].hops)
      /\ Computed(r, req[r].hops # <<>>, req[r].hops) /\ UNCHANGED seen
  BY DEF Labelled, Computed, RouteInv, Holders, Underway
<1> QED BY <1>1, ComputedKeeps

LEMMA AnswerKeeps ==
  ASSUME Types, RouteInv, Nobody \notin Request, NEW r \in Request,
         Newest(r) \/ Confirm(r) \/ Answer(r) \/ Done(r)
  PROVE  RouteInv'
<1>1. /\ UNCHANGED <<table, inward, routing, seen, owner>>
  BY DEF Newest, Confirm, Answer, Done
<1>2. \A s \in Request : s # r => req'[s] = req[s]
  BY OnlyRequest DEF RequestStep
<1>3. req'[r].at \in {"idle", "confirm", "answer", "done"}
  <2>1. DOMAIN req = Request /\ DOMAIN req[r] = Fields
    BY DEF Types
  <2>2. CASE Newest(r)
    BY <2>1, <2>2 DEF Newest, Fields
  <2>3. CASE Confirm(r)
    BY <2>1, <2>3 DEF Confirm, Fields
  <2>4. CASE Answer(r)
    BY <2>1, <2>4 DEF Answer, Fields
  <2>5. CASE Done(r)
    BY <2>1, <2>5 DEF Done, Resting
  <2> QED BY <2>2, <2>3, <2>4, <2>5
<1> QED BY <1>1, <1>3, <1>2, RequestRests

LEMMA RouteInductive ==
  ASSUME MaxGen \in Nat, Peering \subseteq Ip \X Ip, Nobody \notin Request, GraphInv, RouteInv, [Next]_vars
  PROVE  RouteInv'
<1>0. Types
  BY DEF GraphInv
<1>1. ASSUME NEW n \in Ip, (\E p \in Ip : Announce(n, p)) \/ Reset(n) \/ Clean(n)  PROVE  RouteInv'
  BY <1>1, TablesKeep
<1>2. ASSUME NEW r \in Request, RequestStep(r)  PROVE  RouteInv'
  <2>1. CASE Start(r) \/ Lock(r) \/ Edge(r) \/ Built(r)
    BY <1>0, <2>1, StartKeeps, LockKeeps, EdgeKeeps, BuiltKeeps
  <2>2. CASE Cached(r) \/ NextHop(r) \/ Labelled(r)
    BY <1>0, <2>2, CachedKeeps, NextHopKeeps, LabelledKeeps
  <2>3. CASE Newest(r) \/ Confirm(r) \/ Answer(r) \/ Done(r)
    BY <1>0, <2>3, AnswerKeeps
  <2>4. CASE \E n \in Ip : Row(r, n)
    BY <1>0, <2>4, RowKeeps
  <2> QED BY <1>2, <2>1, <2>2, <2>3, <2>4 DEF RequestStep
<1>3. CASE UNCHANGED <<changes, table, inward, routing, owner, req, seen>>
  <2>1. \A r \in Request : Underway(r)'
    BY <1>3, SameTruth DEF RouteInv, Underway
  <2>2. CacheTrue'
    BY <1>3, SameTruth DEF RouteInv, CacheTrue
  <2>3. Covered' /\ Holders'
    BY <1>3 DEF RouteInv, Covered, FirstLinks, Node, Holders
  <2> QED BY <2>1, <2>2, <2>3 DEF RouteInv
<1> QED BY <1>1, <1>2, <1>3, Steps

-----------------------------------------------------------------------------
(* The peering link is answered.                                             *)

\* If there is a link that both announced and none is newer, the newest is it.
LEMMA NewestIsDirect ==
  ASSUME GraphInv, NEW src \in Nodes \cup {NoNode}, NEW tar \in Nodes \cup {NoNode}, Direct(src, tar) # {}
  PROVE  /\ NoNode \notin {src, tar} /\ inward[tar][src[1]] # <<>>
         /\ inward[tar][src[1]][NewestOf(inward[tar][src[1]])].label \in Direct(src, tar)
<1> DEFINE links == inward[tar][src[1]]
           Best(i) == \A k \in DOMAIN links : links[k].created <= links[i].created
                                              /\ (k > i => links[k].created < links[i].created)
<1>1. NoNode \notin {src, tar} /\ src \in Nodes /\ tar \in Nodes /\ src[1] \in Ip
  BY DEF Direct, Nodes
<1>2. links \in Seq(LinkRec) /\ Apart(links, changes)
  BY <1>1 DEF GraphInv, Types, LinksApart
<1>3. PICK x \in ToSet(links) : /\ \A y \in ToSet(links) : y.created <= x.created
                                /\ \E z \in ToSet(inward[src][tar[1]]) : z.num = x.label
  BY <1>1 DEF Direct
<1>4. x.label \in Direct(src, tar)
  BY <1>1, <1>3 DEF Direct
<1>5. PICK i \in DOMAIN links : links[i] = x
  BY <1>3 DEF ToSet
<1> HIDE DEF links
<1>6. \A k \in DOMAIN links : links[k].created \in Nat /\ links[k].created <= links[i].created
  <2>1. \A k \in DOMAIN links : links[k] \in LinkRec /\ links[k] \in ToSet(links)
    BY <1>2 DEF ToSet
  <2> QED BY <1>3, <1>5, <2>1 DEF LinkRec
<1>7. \A k \in DOMAIN links : links[k].created = links[i].created => k = i
  BY <1>2, <1>5 DEF Apart
<1>8. Best(i)
  <2> SUFFICES ASSUME NEW k \in DOMAIN links, k > i  PROVE  links[k].created < links[i].created
    BY <1>6
  <2>1. DOMAIN links \subseteq Nat
    BY <1>2
  <2>2. k # i
    BY <2>1
  <2>3. links[k].created # links[i].created
    BY <1>7, <2>2
  <2>4. links[k].created \in Nat /\ links[i].created \in Nat /\ links[k].created <= links[i].created
    BY <1>6
  <2> QED BY <2>3, <2>4
<1>9. NewestOf(links) \in DOMAIN links /\ Best(NewestOf(links))
  <2>1. NewestOf(links) = CHOOSE k \in DOMAIN links : Best(k)
    BY DEF NewestOf
  <2> HIDE DEF Best
  <2> QED BY <1>5, <1>8, <2>1
<1>10. NewestOf(links) = i
  <2> DEFINE m == NewestOf(links)
  <2>1. links[m].created <= links[i].created /\ links[i].created <= links[m].created
    BY <1>5, <1>6, <1>9
  <2>2. links[m].created \in Nat /\ links[i].created \in Nat
    BY <1>5, <1>6, <1>9
  <2>3. links[m].created = links[i].created
    BY <2>1, <2>2
  <2> QED BY <1>7, <1>9, <2>3
<1>11. links # <<>>
  BY <1>5
<1> QED BY <1>1, <1>4, <1>5, <1>10, <1>11 DEF links

\* The other end has a link with the number of a label that is best.
LEMMA DirectIsConfirmed ==
  ASSUME NEW src, NEW tar, NEW l \in Direct(src, tar)
  PROVE  \E i \in DOMAIN inward[src][tar[1]] : inward[src][tar[1]][i].num = l
<1>1. NoNode \notin {src, tar}
  BY DEF Direct
<1>2. PICK x \in ToSet(inward[tar][src[1]]) : x.label = l /\ \E z \in ToSet(inward[src][tar[1]]) : z.num = x.label
  BY <1>1 DEF Direct
<1> QED BY <1>2 DEF ToSet

LEMMA SameDirect ==
  ASSUME UNCHANGED inward
  PROVE  \A src, tar : Direct(src, tar)' = Direct(src, tar)
BY DEF Direct

\* A request goes on towards the answer.
LEMMA PromiseMoves ==
  ASSUME PromiseInv, UNCHANGED <<changes, inward>>, NEW r \in Request,
         \A s \in Request : s # r => req'[s] = req[s],
         req'[r].src = req[r].src, req'[r].tar = req[r].tar, req'[r].began = req[r].began,
         req'[r].better = req[r].better,
         req[r].at \notin {"idle", "panic"}, req'[r].at \notin {"confirm", "answer", "done"}
  PROVE  PromiseInv'
<1>1. ASSUME NEW s \in Request  PROVE  Promise(s)'
  <2>1. CASE s = r
    BY <2>1, SameDirect DEF PromiseInv, Promise, Settled
  <2>2. CASE s # r
    <3>1. Promise(s) /\ req'[s] = req[s]
      BY <2>2 DEF PromiseInv
    <3> QED BY <3>1, SameDirect DEF Promise, Settled
  <2> QED BY <2>1, <2>2
<1> QED BY <1>1 DEF PromiseInv

LEMMA PromiseKept ==
  ASSUME PromiseInv, UNCHANGED <<changes, inward>>, NEW r \in Request,
         \A s \in Request : s # r => req'[s] = req[s], Promise(r)'
  PROVE  PromiseInv'
<1>1. ASSUME NEW s \in Request, s # r  PROVE  Promise(s)'
  <2>1. Promise(s) /\ req'[s] = req[s]
    BY <1>1 DEF PromiseInv
  <2> QED BY <2>1, SameDirect DEF Promise, Settled
<1> QED BY <1>1 DEF PromiseInv

\* When the tables change, nothing is promised of what has begun.
LEMMA PromiseLapses ==
  ASSUME Types, PromiseInv, changes' = changes + 1, UNCHANGED req
  PROVE  PromiseInv'
<1>1. ASSUME NEW r \in Request  PROVE  Promise(r)'
  <2>1. /\ req[r].src \in Nodes \cup {NoNode} /\ req[r].tar \in Nodes \cup {NoNode}
        /\ req[r].began \in Nat /\ req[r].began <= changes
    BY DEF PromiseInv, Promise
  <2>2. changes \in Nat
    BY DEF Types
  <2>3. req'[r].began <= changes' /\ req'[r].began # changes'
    BY <2>1, <2>2
  <2>4. ~Settled(r)'
    BY <2>3 DEF Settled
  <2> QED BY <2>1, <2>3, <2>4 DEF Promise
<1> QED BY <1>1 DEF PromiseInv

LEMMA StartPromises ==
  ASSUME Types, PromiseInv, NEW r \in Request, Start(r),
         \A q \in Asked : q.src \in Ip /\ q.tar \in Ip
  PROVE  PromiseInv'
<1> DEFINE begun(src, tar) == [Resting EXCEPT !.src = src, !.tar = tar, !.began = changes, !.better = Direct(src, tar)]
           ends(src, tar) == IF NoNode \in {src, tar} THEN [begun(src, tar) EXCEPT !.at = "newest"]
                             ELSE IF src = tar THEN [begun(src, tar) EXCEPT !.at = "newest", !.ok = TRUE]
                             ELSE [begun(src, tar) EXCEPT !.at = "lock"]
<1>1. PICK q \in Asked : req' = [req EXCEPT ![r] = ends(Node(q.src), Node(q.tar))]
  BY DEF Start
<1>2. \A src, tar : /\ ends(src, tar).at \in {"newest", "lock"}
                    /\ ends(src, tar).src = src /\ ends(src, tar).tar = tar
                    /\ ends(src, tar).began = changes /\ ends(src, tar).better = Direct(src, tar)
  BY DEF Resting
<1> HIDE DEF ends
<1>3. /\ req'[r].at \in {"newest", "lock"} /\ req'[r].src = Node(q.src) /\ req'[r].tar = Node(q.tar)
      /\ req'[r].began = changes /\ req'[r].better = Direct(Node(q.src), Node(q.tar))
  BY <1>1, <1>2 DEF Types
<1>4. UNCHANGED <<changes, inward>> /\ \A s \in Request : s # r => req'[s] = req[s]
  BY <1>1 DEF Start
<1>5. Node(q.src) \in Nodes \cup {NoNode} /\ Node(q.tar) \in Nodes \cup {NoNode}
  BY NodeTyped
<1>6. changes \in Nat
  BY DEF Types
<1>7. req'[r].began \in Nat /\ req'[r].began <= changes'
  BY <1>3, <1>4, <1>6
<1>8. Promise(r)'
  BY <1>3, <1>4, <1>5, <1>7, SameDirect DEF Promise, Settled
<1> QED BY <1>4, <1>8, PromiseKept

LEMMA NewestPromises ==
  ASSUME GraphInv, PromiseInv, NEW r \in Request, Newest(r)
  PROVE  PromiseInv'
<1> DEFINE links == IF NoNode \in {req[r].tar, req[r].src} THEN <<>> ELSE inward[req[r].tar][req[r].src[1]]
<1>0. DOMAIN req = Request /\ DOMAIN req[r] = Fields
  BY DEF GraphInv, Types
<1>1. req[r].at = "newest" /\ UNCHANGED <<changes, inward>>
  BY DEF Newest
<1>2. \A s \in Request : s # r => req'[s] = req[s]
  BY OnlyRequest DEF RequestStep, GraphInv
<1>3. /\ req'[r].at = "confirm" /\ req'[r].src = req[r].src /\ req'[r].tar = req[r].tar
      /\ req'[r].began = req[r].began /\ req'[r].better = req[r].better
      /\ req'[r].peering = IF links = <<>> THEN {} ELSE {links[NewestOf(links)].label}
  BY <1>0 DEF Newest, Fields
<1>4. Promise(r)
  BY DEF PromiseInv
<1>5. ASSUME Settled(r)'
      PROVE  /\ req'[r].better = Direct(req[r].src, req[r].tar)
             /\ req'[r].peering # {} /\ req'[r].peering \subseteq req'[r].better
  <2>1. Settled(r)
    BY <1>1, <1>3, <1>5 DEF Settled
  <2>2. req[r].better = Direct(req[r].src, req[r].tar) /\ Direct(req[r].src, req[r].tar) # {}
    BY <1>4, <2>1 DEF Promise, Settled
  <2>3. req[r].src \in Nodes \cup {NoNode} /\ req[r].tar \in Nodes \cup {NoNode}
    BY <1>4 DEF Promise
  <2>4. /\ NoNode \notin {req[r].src, req[r].tar} /\ inward[req[r].tar][req[r].src[1]] # <<>>
        /\ inward[req[r].tar][req[r].src[1]][NewestOf(inward[req[r].tar][req[r].src[1]])].label
             \in Direct(req[r].src, req[r].tar)
    BY <2>2, <2>3, NewestIsDirect
  <2>5. links # <<>> /\ links[NewestOf(links)].label \in Direct(req[r].src, req[r].tar)
    BY <2>4
  <2> QED BY <1>3, <2>2, <2>5
<1>6. Promise(r)'
  <2>1. /\ req'[r].src \in Nodes \cup {NoNode} /\ req'[r].tar \in Nodes \cup {NoNode}
        /\ req'[r].began \in Nat /\ req'[r].began <= changes'
    BY <1>1, <1>3, <1>4 DEF Promise
  <2>2. Direct(req[r].src, req[r].tar)' = Direct(req[r].src, req[r].tar)
    BY <1>1, <1>3, SameDirect
  <2> QED BY <1>3, <1>5, <2>1, <2>2 DEF Promise
<1> QED BY <1>1, <1>6, <1>2, PromiseKept

LEMMA ConfirmPromises ==
  ASSUME Types, PromiseInv, NEW r \in Request, Confirm(r)
  PROVE  PromiseInv'
<1>0. DOMAIN req = Request /\ DOMAIN req[r] = Fields
  BY DEF Types
<1>1. req[r].at = "confirm" /\ UNCHANGED <<changes, inward>>
  BY DEF Confirm
<1>2. \A s \in Request : s # r => req'[s] = req[s]
  BY OnlyRequest DEF RequestStep
<1>3. /\ req'[r].at = "answer" /\ req'[r].src = req[r].src /\ req'[r].tar = req[r].tar
      /\ req'[r].began = req[r].began /\ req'[r].better = req[r].better /\ req'[r].peering = req[r].peering
      /\ req'[r].confirmed = /\ req[r].peering # {}
                             /\ \E i \in DOMAIN inward[req[r].src][req[r].tar[1]] :
                                  inward[req[r].src][req[r].tar[1]][i].num \in req[r].peering
  BY <1>0 DEF Confirm, Fields
<1>4. Promise(r)
  BY DEF PromiseInv
<1>5. ASSUME Settled(r)'
      PROVE  /\ req'[r].better = Direct(req[r].src, req[r].tar) /\ req'[r].confirmed
             /\ req'[r].peering # {} /\ req'[r].peering \subseteq req'[r].better
  <2>1. Settled(r)
    BY <1>1, <1>3, <1>5 DEF Settled
  <2>2. /\ req[r].better = Direct(req[r].src, req[r].tar)
        /\ req[r].peering # {} /\ req[r].peering \subseteq req[r].better
    BY <1>1, <1>4, <2>1 DEF Promise
  <2>3. PICK l \in req[r].peering : l \in Direct(req[r].src, req[r].tar)
    BY <2>2
  <2>4. \E i \in DOMAIN inward[req[r].src][req[r].tar[1]] : inward[req[r].src][req[r].tar[1]][i].num = l
    BY <2>3, DirectIsConfirmed
  <2>5. req'[r].confirmed
    BY <1>3, <2>2, <2>3, <2>4
  <2> QED BY <1>3, <2>2, <2>5
<1>6. Promise(r)'
  <2>1. /\ req'[r].src \in Nodes \cup {NoNode} /\ req'[r].tar \in Nodes \cup {NoNode}
        /\ req'[r].began \in Nat /\ req'[r].began <= changes'
    BY <1>1, <1>3, <1>4 DEF Promise
  <2>2. Direct(req[r].src, req[r].tar)' = Direct(req[r].src, req[r].tar)
    BY <1>1, <1>3, SameDirect
  <2> QED BY <1>3, <1>5, <2>1, <2>2 DEF Promise
<1> QED BY <1>1, <1>6, <1>2, PromiseKept

LEMMA AnswerPromises ==
  ASSUME Types, PromiseInv, NEW r \in Request, Answer(r)
  PROVE  PromiseInv'
<1>0. DOMAIN req = Request /\ DOMAIN req[r] = Fields
  BY DEF Types
<1>1. req[r].at = "answer" /\ UNCHANGED <<changes, inward>>
  BY DEF Answer
<1>2. \A s \in Request : s # r => req'[s] = req[s]
  BY OnlyRequest DEF RequestStep
<1>3. /\ req'[r].at = "done" /\ req'[r].src = req[r].src /\ req'[r].tar = req[r].tar
      /\ req'[r].began = req[r].began /\ req'[r].better = req[r].better /\ req'[r].ok = req[r].ok
      /\ req'[r].label = IF ~req[r].ok THEN <<"none">>
                         ELSE IF req[r].confirmed THEN <<"peering", CHOOSE l \in req[r].peering : TRUE>>
                         ELSE <<"route">>
  BY <1>0 DEF Answer, Fields
<1>4. Promise(r)
  BY DEF PromiseInv
<1>5. ASSUME Settled(r)'
      PROVE  /\ req'[r].better = Direct(req[r].src, req[r].tar)
             /\ req'[r].ok => req'[r].label[1] = "peering" /\ req'[r].label[2] \in req'[r].better
  <2>1. Settled(r)
    BY <1>1, <1>3, <1>5 DEF Settled
  <2>2. /\ req[r].better = Direct(req[r].src, req[r].tar) /\ req[r].confirmed
        /\ req[r].peering # {} /\ req[r].peering \subseteq req[r].better
    BY <1>1, <1>4, <2>1 DEF Promise
  <2>3. (CHOOSE l \in req[r].peering : TRUE) \in req[r].better
    BY <2>2
  <2> QED BY <1>3, <2>2, <2>3
<1>6. Promise(r)'
  <2>1. /\ req'[r].src \in Nodes \cup {NoNode} /\ req'[r].tar \in Nodes \cup {NoNode}
        /\ req'[r].began \in Nat /\ req'[r].began <= changes'
    BY <1>1, <1>3, <1>4 DEF Promise
  <2>2. Direct(req[r].src, req[r].tar)' = Direct(req[r].src, req[r].tar)
    BY <1>1, <1>3, SameDirect
  <2> QED BY <1>3, <1>5, <2>1, <2>2 DEF Promise
<1> QED BY <1>1, <1>6, <1>2, PromiseKept

\* Done, or a rebuild that panics: nothing is promised any more.
LEMMA RestPromises ==
  ASSUME Types, PromiseInv, NEW r \in Request, Done(r) \/ \E n \in Ip : Row(r, n)
  PROVE  PromiseInv'
<1>0. DOMAIN req = Request /\ DOMAIN req[r] = Fields /\ changes \in Nat
  BY DEF Types
<1>1. UNCHANGED <<changes, inward>> /\ \A s \in Request : s # r => req'[s] = req[s]
  BY OnlyRequest DEF RequestStep
<1>2. CASE \/ req' = [req EXCEPT ![r] = Resting] \/ req' = [req EXCEPT ![r] = [Resting EXCEPT !.at = "panic"]]
  <2>1. /\ req'[r].src = NoNode /\ req'[r].tar = NoNode /\ req'[r].began = 0 /\ req'[r].at \in {"idle", "panic"}
    BY <1>0, <1>2 DEF Resting
  <2>2. 0 \in Nat /\ 0 <= changes'
    BY <1>0, <1>1
  <2>3. Promise(r)'
    BY <2>1, <2>2 DEF Promise, Settled
  <2> QED BY <1>1, <2>3, PromiseKept
<1>3. ASSUME NEW n \in Ip, Row(r, n), table[n] # 0  PROVE  PromiseInv'
  <2>1. /\ req'[r].src = req[r].src /\ req'[r].tar = req[r].tar /\ req'[r].began = req[r].began
        /\ req'[r].better = req[r].better /\ req[r].at = "rows" /\ req'[r].at = "rows"
    <3>1. /\ req[r].at = "rows"
          /\ req' = [req EXCEPT ![r].row = Node(n), ![r].todo = @ \ {n},
                                ![r].left = { p \in Ip : inward[Node(n)][p] # <<>> }]
      BY <1>3 DEF Row
    <3> QED BY <1>0, <3>1 DEF Fields
  <2> QED BY <1>1, <2>1, PromiseMoves
<1> QED BY <1>2, <1>3 DEF Done, Row

\* Between the lookups and the answer.
LEMMA MiddlePromises ==
  ASSUME Types, PromiseInv, NEW r \in Request,
         Lock(r) \/ Edge(r) \/ Built(r) \/ Cached(r) \/ NextHop(r) \/ Labelled(r)
  PROVE  PromiseInv'
<1> DEFINE Goes ==
  /\ req'[r].src = req[r].src /\ req'[r].tar = req[r].tar /\ req'[r].began = req[r].began
  /\ req'[r].better = req[r].better
  /\ req[r].at \in {"lock", "rows", "cached", "hops"} /\ req'[r].at \in {"rows", "cached", "hops", "newest"}
<1>0. DOMAIN req = Request /\ DOMAIN req[r] = Fields
  BY DEF Types
<1>1. UNCHANGED <<changes, inward>> /\ \A s \in Request : s # r => req'[s] = req[s]
  BY OnlyRequest DEF RequestStep
<1>2. ASSUME Lock(r)  PROVE  Goes
  <2>1. /\ req[r].at = "lock"
        /\ \/ req' = [req EXCEPT ![r].at = "rows", ![r].time = now, ![r].todo = { n \in Ip : table[n] # 0 }]
           \/ req' = [req EXCEPT ![r].at = "cached"]
    BY <1>2 DEF Lock
  <2> QED BY <1>0, <2>1 DEF Fields
<1>3. ASSUME Edge(r)  PROVE  Goes
  <2>1. /\ req[r].at = "rows"
        /\ \E left, edges : req' = [req EXCEPT ![r].left = left, ![r].edges = edges]
    BY <1>3 DEF Edge
  <2> QED BY <1>0, <2>1 DEF Fields
<1>4. ASSUME Built(r)  PROVE  Goes
  BY <1>0, <1>4 DEF Built, Fields
<1>5. ASSUME Cached(r)  PROVE  Goes
  BY <1>0, <1>5 DEF Cached, Return, Fields
<1>6. ASSUME NextHop(r)  PROVE  Goes
  BY <1>0, <1>6 DEF NextHop, Computed, Return, Fields
<1>7. ASSUME Labelled(r)  PROVE  Goes
  BY <1>0, <1>7 DEF Labelled, Computed, Return, Fields
<1> HIDE DEF Goes
<1>8. Goes
  BY <1>2, <1>3, <1>4, <1>5, <1>6, <1>7
<1> QED BY <1>1, <1>8, PromiseMoves DEF Goes

LEMMA PromiseInductive ==
  ASSUME GraphInv, PromiseInv, [Next]_vars, \A q \in Asked : q.src \in Ip /\ q.tar \in Ip
  PROVE  PromiseInv'
<1>0. Types
  BY DEF GraphInv
<1>1. ASSUME NEW n \in Ip, Reset(n) \/ Clean(n) \/ \E p \in Ip : Announce(n, p)  PROVE  PromiseInv'
  <2>1. changes' = changes + 1 /\ UNCHANGED req
    BY <1>1 DEF Reset, Clean, Announce
  <2> QED BY <1>0, <2>1, PromiseLapses
<1>2. ASSUME NEW r \in Request, RequestStep(r)  PROVE  PromiseInv'
  <2>1. CASE Start(r)
    BY <1>0, <2>1, StartPromises
  <2>2. CASE Lock(r) \/ Edge(r) \/ Built(r) \/ Cached(r) \/ NextHop(r) \/ Labelled(r)
    BY <1>0, <2>2, MiddlePromises
  <2>3. CASE Newest(r) \/ Confirm(r) \/ Answer(r)
    BY <1>0, <2>3, NewestPromises, ConfirmPromises, AnswerPromises
  <2>4. CASE Done(r) \/ \E n \in Ip : Row(r, n)
    BY <1>0, <2>4, RestPromises
  <2> QED BY <1>2, <2>1, <2>2, <2>3, <2>4 DEF RequestStep
<1>3. CASE UNCHANGED <<changes, table, inward, routing, owner, req, seen>>
  <2>1. ASSUME NEW r \in Request  PROVE  Promise(r)'
    BY <1>3, SameDirect DEF PromiseInv, Promise, Settled
  <2> QED BY <2>1 DEF PromiseInv
<1> QED BY <1>1, <1>2, <1>3, Steps

-----------------------------------------------------------------------------
(* The theorems.                                                             *)

\* What the values given to the constants have to be.
Parameters ==
  /\ MaxGen \in Nat \ {0}
  /\ Peering \subseteq Ip \X Ip
  /\ Nobody \notin Request
  /\ \A q \in Asked : q.src \in Ip /\ q.tar \in Ip

Inv == GraphInv /\ RouteInv /\ PromiseInv

LEMMA InitInv ==
  ASSUME Parameters, Init
  PROVE  Inv
<1>1. /\ changes = 0 /\ table = [n \in Ip |-> 1] /\ routing.graph = NoGraph /\ routing.cache = <<>>
      /\ DOMAIN routing = {"last", "graph", "cache"} /\ owner = Nobody /\ req = [r \in Request |-> Resting]
  BY DEF Init
<1>2. \A n \in Nodes, p \in Ip :
        \/ inward[n][p] = <<>>
        \/ <<n[1], p>> \in Peering /\ inward[n][p] = <<[label |-> 1, num |-> 1, created |-> 0]>>
  BY DEF Init
<1>3. [label |-> 1, num |-> 1, created |-> 0] \in LinkRec
  BY DEF LinkRec
<1>4. \A n \in Nodes, p \in Ip : inward[n][p] \in Seq(LinkRec)
  <2>1. <<>> \in Seq(LinkRec) /\ <<[label |-> 1, num |-> 1, created |-> 0]>> \in Seq(LinkRec)
    BY <1>3
  <2> QED BY <1>2, <2>1
<1>5. Types
  <2>1. inward \in [Nodes -> [Ip -> Seq(LinkRec)]]
    BY <1>4 DEF Init
  <2>2. table \in [Ip -> 0..MaxGen]
    BY <1>1 DEF Parameters
  <2>3. DOMAIN Resting = Fields
    BY DEF Resting, Fields
  <2> QED BY <1>1, <2>1, <2>2, <2>3 DEF Types
<1>6. Linked
  BY <1>2 DEF Linked
<1>7. LinksApart
  <2>1. Apart(<<>>, 0)
    BY DEF Apart
  <2>2. Apart(<<[label |-> 1, num |-> 1, created |-> 0]>>, 0)
    BY DEF Apart
  <2> QED BY <1>1, <1>2, <2>1, <2>2 DEF LinksApart
<1>8. \A r \in Request : req[r] = Resting
  BY <1>1
<1>9. RouteInv
  <2>1. Covered
    BY <1>1 DEF Covered
  <2>2. Holders
    BY <1>8 DEF Holders, Resting
  <2>3. CacheTrue
    BY <1>1 DEF CacheTrue
  <2>4. \A r \in Request : Underway(r)
    BY <1>8 DEF Underway, Resting
  <2> QED BY <2>1, <2>2, <2>3, <2>4 DEF RouteInv
<1>10. PromiseInv
  BY <1>1, <1>8 DEF PromiseInv, Promise, Settled, Resting
<1> QED BY <1>5, <1>6, <1>7, <1>9, <1>10 DEF Inv, GraphInv

LEMMA NextInv ==
  ASSUME Parameters, Inv, [Next]_vars
  PROVE  Inv'
<1>1. MaxGen \in Nat
  BY DEF Parameters
<1>2. GraphInv'
  BY <1>1, GraphInductive DEF Inv
<1>3. RouteInv'
  BY <1>1, RouteInductive DEF Inv, Parameters
<1>4. PromiseInv'
  BY PromiseInductive DEF Inv, Parameters
<1> QED BY <1>2, <1>3, <1>4 DEF Inv

LEMMA SpecInv ==
  ASSUME Parameters
  PROVE  Spec => []Inv
<1>1. Init => Inv
  BY InitInv
<1>2. Inv /\ [Next]_vars => Inv'
  BY NextInv
<1> QED BY <1>1, <1>2, PTL DEF Spec

\* Every route in the cache leads over links that were there since the last rebuild began,
\* however announcements, resets, the cleaner and panics fall between the steps that compute
\* it, and whichever way a hop's label is found.  (get_route_impl, compute_routing_label)
THEOREM RoutesWereTrue ==
  ASSUME Parameters
  PROVE  Spec => []RouteWasTrue
<1>1. Inv => RouteWasTrue
  <2> SUFFICES ASSUME Inv, NEW k \in DOMAIN routing.cache, NEW i \in DOMAIN routing.cache[k].hops
               PROVE  routing.cache[k].hops[i].link
                        \in seen[routing.cache[k].hops[i].n, routing.cache[k].hops[i].p]
    BY DEF RouteWasTrue
  <2>1. AllTrue(routing.cache[k].hops)
    BY DEF Inv, RouteInv, CacheTrue
  <2> QED BY <2>1 DEF AllTrue, True
<1> QED BY <1>1, SpecInv, PTL

\* While nothing changes, a node that asks for the way to a peer is answered with the newest
\* link that both announced, if there is any route at all.  (service.rs: "gr")
THEOREM PeersGetTheirLink ==
  ASSUME Parameters
  PROVE  Spec => []DirectToPeer
<1>1. Inv => DirectToPeer
  BY DEF Inv, PromiseInv, Promise, Settled, DirectToPeer
<1> QED BY <1>1, SpecInv, PTL

-----------------------------------------------------------------------------
(* The seeder.                                                             *)

Granted ==
  /\ \A p \in Posts : p.creds \in Seq(Cred)
  /\ Unfit \subseteq SUBSET Seeder!Ip /\ Result \subseteq BOOLEAN
  /\ Respond \in Nat \ {0} /\ Share \in Nat /\ Cutoff \in Nat /\ MaxAge \in Nat /\ MaxTime \in Nat

\* What a list of entries promises, and what stays as it is when it changes.
Kept(list) ==
  /\ list \in Seq(Seeder!Entry)
  /\ \A i, j \in DOMAIN list : list[i].creds = list[j].creds => i = j
  /\ \A i \in DOMAIN list : /\ list[i].creds.ip = list[i].ip
                            /\ list[i].private <=> list[i].first \notin PubId
Same(p, q) == q.creds = p.creds /\ q.ip = p.ip /\ q.first = p.first /\ q.private = p.private
Grown(list, new) == Len(list) <= Len(new) /\ \A i \in DOMAIN list : Same(list[i], new[i])

Single(out) == \A m, n \in DOMAIN out : out[m] = out[n] => m = n

\* Whom a node is given for one of its credentials.
Fitting(p, cred, unfit) == ~p.private /\ p.creds.fam = cred.fam /\ p.ip \notin unfit
Adds(list, cred, unfit, a, b) ==
  /\ a \in Seq(Cred) /\ b \in Seq(Cred) /\ Len(a) <= Len(b) /\ \A n \in 1..Len(a) : b[n] = a[n]
  /\ Single(a) => Single(b)
  /\ \A n \in 1..Len(b) :
       n > Len(a) => \E i \in DOMAIN list : Fitting(list[i], cred, unfit) /\ b[n] = list[i].creds

\* Of the peers at some positions, all that fit are there.
Enough(list, K, cred, unfit, out) ==
  \A i \in K : Fitting(list[i], cred, unfit) => \E n \in DOMAIN out : out[n] = list[i].creds

LEMMA SamePick ==
  /\ \A s, K : Seeder!Pick(s, K) = Pick(s, K)
  /\ \A S : Seeder!Cardinality(S) = Cardinality(S)
BY DEF Seeder!Pick, Pick, Seeder!Rank, Rank, Seeder!Cardinality, Cardinality

LEMMA AddsTogether ==
  ASSUME NEW list, NEW cred, NEW unfit, NEW a, NEW b, NEW c,
         Adds(list, cred, unfit, a, b), Adds(list, cred, unfit, b, c)
  PROVE  Adds(list, cred, unfit, a, c)
<1>1. /\ a \in Seq(Cred) /\ b \in Seq(Cred) /\ c \in Seq(Cred)
      /\ Len(a) <= Len(b) /\ Len(b) <= Len(c) /\ Single(a) => Single(c)
  BY DEF Adds
<1>2. Len(a) \in Nat /\ Len(b) \in Nat /\ Len(c) \in Nat
  BY <1>1
<1>3. \A n \in 1..Len(a) : c[n] = a[n]
  BY <1>1, <1>2 DEF Adds
<1>4. ASSUME NEW n \in 1..Len(c), n > Len(a)
      PROVE  \E i \in DOMAIN list : Fitting(list[i], cred, unfit) /\ c[n] = list[i].creds
  <2>1. CASE n > Len(b)
    BY <2>1 DEF Adds
  <2>2. CASE n <= Len(b)
    <3>1. n \in 1..Len(b)
      BY <1>2, <2>2
    <3> QED BY <1>4, <3>1 DEF Adds
  <2> QED BY <1>2, <2>1, <2>2
<1> QED BY <1>1, <1>2, <1>3, <1>4 DEF Adds

\* A pass adds peers that fit, none twice, and stops short of its room only when there are no more.
LEMMA PassAdds ==
  ASSUME NEW list, Kept(list), NEW cred, NEW unfit, NEW out \in Seq(Cred), NEW among \in SUBSET DOMAIN list,
         NEW room \in Nat
  PROVE  LET new == Seeder!Pass(list, cred, unfit, out, among, room) IN
           /\ Adds(list, cred, unfit, out, new) /\ Len(new) <= Len(out) + room
           /\ Len(new) = Len(out) + room \/ Enough(list, among, cred, unfit, new)
<1> DEFINE K == { i \in among : Seeder!Eligible(list[i], cred, out, unfit) }
           fit == Pick(list, K)
           more == IF Len(fit) < room THEN Len(fit) ELSE room
           tail == [n \in 1..more |-> fit[n].creds]
           new == out \o tail
<1>1. Seeder!Pass(list, cred, unfit, out, among, room) = new
  BY SamePick DEF Seeder!Pass
<1>2. list \in Seq(Seeder!Entry) /\ K \in SUBSET DOMAIN list
  BY DEF Kept
<1>3. \A i \in K : i \in DOMAIN list /\ list[i] \in Seeder!Entry /\ Fitting(list[i], cred, unfit)
                   /\ \A n \in DOMAIN out : out[n] # list[i].creds
  BY <1>2 DEF Seeder!Eligible, Fitting, Seeder!ToSet
<1>4. \A i \in among : Fitting(list[i], cred, unfit) => i \in K \/ \E n \in DOMAIN out : out[n] = list[i].creds
  BY DEF Seeder!Eligible, Fitting, Seeder!ToSet
<1> HIDE DEF K
<1>5. PICK at \in [DOMAIN fit -> K] :
        /\ \A n \in DOMAIN fit : fit[n] = list[at[n]]
        /\ \A n, m \in DOMAIN fit : n < m => at[n] < at[m]
        /\ \A i \in K : \E n \in DOMAIN fit : at[n] = i
  BY <1>2, PickOrder
<1>6. fit \in Seq(Seeder!Entry)
  BY <1>2, PickElements
<1> HIDE DEF fit
<1>7. Len(fit) \in Nat /\ more \in Nat /\ more <= Len(fit) /\ more <= room
      /\ DOMAIN fit = 1..Len(fit)
  BY <1>6
<1>8. more = Len(fit) \/ more = room
  OBVIOUS
<1> HIDE DEF more
<1>9. \A n \in 1..more : at[n] \in K /\ fit[n] = list[at[n]] /\ fit[n].creds = list[at[n]].creds
  BY <1>5, <1>7
<1>10. tail \in Seq(Cred) /\ Len(tail) = more /\ \A n \in 1..more : tail[n] = list[at[n]].creds
  <2>1. \A n \in 1..more : fit[n].creds \in Cred
    BY <1>3, <1>9 DEF Seeder!Entry
  <2> QED BY <1>7, <1>9, <2>1
<1> HIDE DEF tail
<1>11. /\ new \in Seq(Cred) /\ Len(new) = Len(out) + more /\ Len(out) \in Nat
       /\ \A n \in 1..Len(out) : new[n] = out[n]
       /\ \A n \in 1..more : new[Len(out) + n] = tail[n]
  <2>1. new \in Seq(Cred) /\ Len(new) = Len(out) + Len(tail) /\ Len(out) \in Nat
    BY <1>10
  <2>2. \A n \in 1..Len(out) : new[n] = out[n]
    BY <1>10
  <2>3. ASSUME NEW n \in 1..more  PROVE  new[Len(out) + n] = tail[n]
    <3>1. Len(out) + n \in (Len(out) + 1)..(Len(out) + Len(tail))
      BY <1>7, <1>10, <2>1
    <3>2. \A k \in (Len(out) + 1)..(Len(out) + Len(tail)) : new[k] = tail[k - Len(out)]
      BY <1>10
    <3>3. Len(out) + n - Len(out) = n
      BY <1>7, <2>1
    <3> QED BY <3>1, <3>2, <3>3
  <2> QED BY <1>10, <2>1, <2>2, <2>3
<1> HIDE DEF new
<1>12. ASSUME NEW n \in 1..Len(new), n > Len(out)
       PROVE  \E k \in 1..more : n = Len(out) + k /\ at[k] \in K /\ new[n] = list[at[k]].creds
  <2> DEFINE k == n - Len(out)
  <2>1. k \in 1..more /\ n = Len(out) + k
    BY <1>7, <1>11, <1>12
  <2> HIDE DEF k
  <2> QED BY <1>9, <1>10, <1>11, <2>1
<1>13. ASSUME NEW n \in 1..Len(new), n > Len(out)
       PROVE  \E i \in DOMAIN list : Fitting(list[i], cred, unfit) /\ new[n] = list[i].creds
  BY <1>3, <1>12, <1>13
<1>14. ASSUME Single(out)  PROVE  Single(new)
  <2> SUFFICES ASSUME NEW m \in 1..Len(new), NEW n \in 1..Len(new), new[m] = new[n], m < n  PROVE  FALSE
    BY <1>11 DEF Single
  <2>1. CASE n <= Len(out)
    <3>1. m \in 1..Len(out) /\ n \in 1..Len(out)
      BY <1>11, <2>1
    <3>2. out[m] = out[n]
      BY <1>11, <3>1
    <3> QED BY <1>14, <3>1, <3>2 DEF Single
  <2>2. CASE n > Len(out)
    <3>1. PICK k \in 1..more : n = Len(out) + k /\ at[k] \in K /\ new[n] = list[at[k]].creds
      BY <1>12, <2>2
    <3>2. CASE m <= Len(out)
      <4>1. m \in 1..Len(out) /\ new[m] = out[m]
        BY <1>11, <3>2
      <4> QED BY <1>3, <3>1, <4>1
    <3>3. CASE m > Len(out)
      <4>1. PICK j \in 1..more : m = Len(out) + j /\ at[j] \in K /\ new[m] = list[at[j]].creds
        BY <1>12, <3>3
      <4>2. at[j] = at[k]
        BY <1>3, <3>1, <4>1 DEF Kept
      <4>3. j < k
        BY <1>7, <1>11, <3>1, <4>1
      <4>4. at[j] < at[k]
        BY <1>5, <1>7, <4>3
      <4>5. at[j] \in Int
        BY <1>2, <1>3, <4>1
      <4> QED BY <4>2, <4>4, <4>5
    <3> QED BY <1>11, <3>2, <3>3
  <2> QED BY <1>11, <2>1, <2>2
<1>15. ASSUME more = Len(fit), NEW i \in among, Fitting(list[i], cred, unfit)
       PROVE  \E n \in DOMAIN new : new[n] = list[i].creds
  <2>1. CASE i \in K
    <3>1. PICK n \in 1..more : at[n] = i
      BY <1>5, <1>7, <1>15, <2>1
    <3>2. new[Len(out) + n] = list[i].creds /\ Len(out) + n \in 1..Len(new)
      BY <1>7, <1>10, <1>11, <3>1
    <3> QED BY <1>11, <3>2
  <2>2. CASE i \notin K
    <3>1. PICK n \in DOMAIN out : out[n] = list[i].creds
      BY <1>4, <1>15, <2>2
    <3>2. n \in 1..Len(new) /\ new[n] = out[n]
      BY <1>7, <1>11, <3>1
    <3> QED BY <1>11, <3>1, <3>2
  <2> QED BY <2>1, <2>2
<1>16. Adds(list, cred, unfit, out, new)
  BY <1>7, <1>11, <1>13, <1>14 DEF Adds
<1>17. Len(new) <= Len(out) + room /\ (more = room => Len(new) = Len(out) + room)
  BY <1>7, <1>11
<1> QED BY <1>1, <1>8, <1>15, <1>16, <1>17 DEF Enough

\* The passes together: what is found missing did not fit.
LEMMA SelectedAdds ==
  ASSUME Granted, NEW list, Kept(list), NEW sender, NEW cred, NEW unfit, NEW out \in Seq(Cred)
  PROVE  LET all == Seeder!Selected(list, sender, cred, unfit, out) IN
           /\ Adds(list, cred, unfit, out, all)
           /\ Len(all) = Len(out) + Respond \/ Enough(list, DOMAIN list, cred, unfit, all)
<1> DEFINE among(a) == { i \in DOMAIN list : Seeder!InPass(list[i], Seeder!RingOf(list, sender, cred), a) }
           full == Len(out) + Respond
           first == IF out = <<>> THEN Seeder!Pass(list, cred, unfit, out, among(0), 1) ELSE out
           second == Seeder!Pass(list, cred, unfit, first, among(1), full - Len(first))
           third == Seeder!Pass(list, cred, unfit, second, among(2), full - Len(second))
           room == full - Len(third)
           all == Seeder!Pass(list, cred, unfit, third, among(3), room)
<1>1. Seeder!Selected(list, sender, cred, unfit, out) = all
  BY DEF Seeder!Selected
<1>2. among(0) \in SUBSET DOMAIN list /\ among(1) \in SUBSET DOMAIN list /\ among(2) \in SUBSET DOMAIN list
      /\ among(3) = DOMAIN list
  <2>1. \A p, ring : Seeder!InPass(p, ring, 3)
    BY DEF Seeder!InPass
  <2>2. among(3) = DOMAIN list
    BY <2>1
  <2> QED BY <2>2
<1> HIDE DEF among
<1>3. Len(out) \in Nat /\ Respond \in Nat \ {0} /\ full \in Nat
  BY DEF Granted
<1>4. Adds(list, cred, unfit, out, first) /\ Len(first) <= full
  <2>1. Adds(list, cred, unfit, out, out)
    BY <1>3 DEF Adds
  <2>2. CASE out = <<>>
    <3>1. Adds(list, cred, unfit, out, first) /\ Len(first) <= Len(out) + 1
      BY <1>2, <2>2, PassAdds
    <3> HIDE DEF first
    <3>2. Len(first) \in Nat
      BY <3>1 DEF Adds
    <3> QED BY <1>3, <3>1, <3>2
  <2>3. CASE out # <<>>
    BY <1>3, <2>1, <2>3
  <2> QED BY <2>2, <2>3
<1> HIDE DEF full, first
<1>5. first \in Seq(Cred) /\ full - Len(first) \in Nat /\ Len(first) \in Nat
  <2>1. first \in Seq(Cred)
    BY <1>4 DEF Adds
  <2> QED BY <1>3, <1>4, <2>1
<1>6. Adds(list, cred, unfit, first, second) /\ Len(second) <= Len(first) + (full - Len(first))
  BY <1>2, <1>5, PassAdds
<1> HIDE DEF second
<1>7. second \in Seq(Cred) /\ full - Len(second) \in Nat /\ Len(second) \in Nat
  <2>1. second \in Seq(Cred)
    BY <1>6 DEF Adds
  <2>2. Len(second) \in Nat
    BY <2>1
  <2> QED BY <1>3, <1>5, <1>6, <2>1, <2>2
<1>8. Adds(list, cred, unfit, second, third) /\ Len(third) <= Len(second) + (full - Len(second))
  BY <1>2, <1>7, PassAdds
<1> HIDE DEF third
<1>9. third \in Seq(Cred) /\ room \in Nat /\ Len(third) \in Nat
  <2>1. third \in Seq(Cred)
    BY <1>8 DEF Adds
  <2>2. Len(third) \in Nat
    BY <2>1
  <2> QED BY <1>3, <1>7, <1>8, <2>1, <2>2
<1>10. among(3) \in SUBSET DOMAIN list
  BY <1>2
<1> HIDE DEF room
<1>11. /\ Adds(list, cred, unfit, third, all)
       /\ Len(all) = Len(third) + room \/ Enough(list, among(3), cred, unfit, all)
  BY <1>9, <1>10, PassAdds
<1> HIDE DEF all
<1>12. Len(third) + room = full
  BY <1>3, <1>9 DEF room
<1>13. Adds(list, cred, unfit, out, second)
  BY <1>4, <1>6, AddsTogether
<1>14. Adds(list, cred, unfit, out, third)
  BY <1>8, <1>13, AddsTogether
<1>15. Adds(list, cred, unfit, out, all)
  BY <1>11, <1>14, AddsTogether
<1> QED BY <1>1, <1>2, <1>11, <1>12, <1>15 DEF full

\* What is recorded is kept apart, and what was there stays what it was.
LEMMA RecordedGrows ==
  ASSUME NEW list, Kept(list), NEW sender \in Seeder!Ip, NEW id \in Seeder!Id, NEW cred \in Cred,
         cred.ip = sender, MaxTime \in Nat
  PROVE  LET new == Seeder!Recorded(list, sender, id, cred) IN Kept(new) /\ Grown(list, new)
<1> DEFINE found == Seeder!IndexOf(list, sender, cred)
           new == Seeder!Recorded(list, sender, id, cred)
<1>1. list \in Seq(Seeder!Entry) /\ Len(list) \in Nat /\ DOMAIN list = 1..Len(list)
  BY DEF Kept
<1>2. \A i \in DOMAIN list : list[i] \in Seeder!Entry
  BY <1>1
<1>3. CASE found = {}
  <2> DEFINE e == Seeder!NewPeer(sender, id, cred)
  <2>1. new = Append(list, e)
    BY <1>3 DEF Seeder!Recorded
  <2>2. e \in Seeder!Entry
    BY DEF Seeder!NewPeer, Seeder!Entry, Seeder!TopRing, Seeder!Never
  <2>3. e.creds = cred /\ e.ip = sender /\ (e.private <=> e.first \notin PubId)
    BY DEF Seeder!NewPeer
  <2> HIDE DEF e, new
  <2>4. /\ new \in Seq(Seeder!Entry) /\ Len(new) = Len(list) + 1 /\ DOMAIN new = 1..Len(new)
        /\ \A i \in DOMAIN list : new[i] = list[i]
        /\ new[Len(list) + 1] = e
    BY <1>1, <2>1, <2>2
  <2>5. \A i \in DOMAIN list : list[i].creds # cred
    BY <1>3 DEF Seeder!IndexOf, Kept
  <2>6. \A i \in DOMAIN new : i \in DOMAIN list \/ i = Len(list) + 1
    BY <1>1, <2>4
  <2>7. Grown(list, new)
    BY <1>1, <2>4 DEF Grown, Same
  <2>8. Kept(new)
    BY <1>1, <2>3, <2>4, <2>5, <2>6 DEF Kept
  <2> QED BY <2>7, <2>8 DEF new
<1>4. CASE found # {}
  <2>1. PICK i \in found : TRUE
    BY <1>4
  <2>2. i \in DOMAIN list /\ list[i].creds = cred
    BY <2>1 DEF Seeder!IndexOf
  <2>3. found = {i}
    BY <2>2, <2>1 DEF Seeder!IndexOf, Kept
  <2>4. (CHOOSE j \in found : \A k \in found : j <= k) = i
    BY <1>1, <2>2, <2>3
  <2> DEFINE e == Seeder!Renewed(list[i], id)
  <2>5. new = [list EXCEPT ![i] = e]
    BY <1>4, <2>4 DEF Seeder!Recorded
  <2>6. e \in Seeder!Entry /\ Same(list[i], e)
    BY <1>2, <2>2 DEF Seeder!Renewed, Seeder!Entry, Same, Seeder!Never
  <2> HIDE DEF e, new
  <2>7. new \in Seq(Seeder!Entry) /\ Len(new) = Len(list) /\ DOMAIN new = DOMAIN list
    <3>1. new \in [1..Len(list) -> Seeder!Entry]
      BY <1>1, <1>2, <2>2, <2>5, <2>6
    <3> QED BY <1>1, <3>1
  <2>8. \A j \in DOMAIN list : Same(list[j], new[j])
    BY <2>2, <2>5, <2>6 DEF Same
  <2>9. Grown(list, new)
    BY <1>1, <2>7, <2>8 DEF Grown
  <2>10. Kept(new)
    BY <2>7, <2>8 DEF Kept, Same
  <2> QED BY <2>9, <2>10 DEF new
<1> QED BY <1>3, <1>4

LEMMA TrimmedFits ==
  ASSUME Respond \in Nat, NEW out \in Seq(Cred), Single(out), NEW got \in Seeder!Trimmed(out)
  PROVE  /\ got \in Seq(Cred) /\ Len(got) <= Respond /\ Single(got)
         /\ \A n \in DOMAIN got : \E m \in DOMAIN out : got[n] = out[m]
         /\ got = out \/ Len(got) = Respond
<1>1. CASE Len(out) <= Respond
  BY <1>1 DEF Seeder!Trimmed
<1>2. CASE ~(Len(out) <= Respond)
  <2>1. PICK keep \in SUBSET DOMAIN out : got = Pick(out, keep) /\ Cardinality(keep) = Respond
    BY <1>2, SamePick DEF Seeder!Trimmed
  <2>2. got \in Seq(Cred)
    BY <2>1, PickElements
  <2>3. PICK at \in [DOMAIN got -> keep] :
          /\ \A n \in DOMAIN got : got[n] = out[at[n]]
          /\ \A n, m \in DOMAIN got : n < m => at[n] < at[m]
    BY <2>1, PickOrder
  <2>4. DOMAIN got = 1..Respond
    BY <2>1 DEF Pick
  <2>5. Len(got) = Respond
    BY <2>2, <2>4
  <2>6. \A n \in DOMAIN got : at[n] \in DOMAIN out /\ at[n] \in Int
    BY <2>1, <2>3
  <2>7. ASSUME NEW n \in DOMAIN got, NEW m \in DOMAIN got, got[n] = got[m]  PROVE  n = m
    <3>1. at[n] = at[m]
      BY <2>3, <2>6, <2>7 DEF Single
    <3>2. n \in Int /\ m \in Int
      BY <2>4
    <3> QED BY <2>3, <2>6, <3>1, <3>2
  <2> QED BY <2>2, <2>3, <2>5, <2>6, <2>7 DEF Single
<1> QED BY <1>1, <1>2

Given(list, c) == \E i \in DOMAIN list : list[i].creds = c /\ list[i].first \in PubId
Wanted(e, p) == ~e.private /\ e.creds.fam \in p.fams /\ e.ip \notin p.refused

\* The selections for a post so far.
Holds(list, p) ==
  /\ p.known <= Len(list) /\ Single(p.out)
  /\ \A n \in DOMAIN p.out : p.out[n].ip \notin p.unfit /\ p.out[n].fam \in p.fams /\ Given(list, p.out[n])
  /\ \/ Len(p.out) >= Respond
     \/ \A i \in 1..p.known : Wanted(list[i], p) => \E n \in DOMAIN p.out : p.out[n] = list[i].creds

LEMMA GivenStays ==
  ASSUME NEW list, NEW new, Kept(list), Kept(new), Grown(list, new), NEW c, Given(list, c)
  PROVE  Given(new, c)
<1>1. PICK i \in DOMAIN list : list[i].creds = c /\ list[i].first \in PubId
  BY DEF Given
<1>2. Same(list[i], new[i])
  BY DEF Grown
<1>3. DOMAIN list = 1..Len(list) /\ DOMAIN new = 1..Len(new) /\ Len(list) \in Nat /\ Len(new) \in Nat
  BY DEF Kept
<1>4. i \in DOMAIN new
  BY <1>3 DEF Grown
<1> QED BY <1>1, <1>2, <1>4 DEF Given, Same

LEMMA HoldsStays ==
  ASSUME NEW list, NEW new, Kept(list), Kept(new), Grown(list, new),
         NEW p, p.known \in Nat, Holds(list, p)
  PROVE  Holds(new, p)
<1>1. DOMAIN list = 1..Len(list) /\ Len(list) \in Nat /\ Len(new) \in Nat
  BY DEF Kept
<1>2. p.known <= Len(new)
  BY <1>1 DEF Holds, Grown
<1>3. \A n \in DOMAIN p.out : Given(new, p.out[n])
  BY GivenStays DEF Holds
<1>4. ASSUME NEW i \in 1..p.known  PROVE  Same(list[i], new[i])
  <2>1. i \in DOMAIN list
    BY <1>1 DEF Holds
  <2> QED BY <2>1 DEF Grown
<1>5. ASSUME NEW i \in 1..p.known, Wanted(new[i], p)
      PROVE  Wanted(list[i], p) /\ new[i].creds = list[i].creds
  BY <1>4, <1>5 DEF Wanted, Same
<1> QED BY <1>2, <1>3, <1>5 DEF Holds

\* handle_cred keeps what is promised of the selections.
Handled(list, sender, cred, unfit, p, q) ==
  /\ q.known = p.known /\ q.out = Seeder!Selected(list, sender, cred, unfit, p.out)
  /\ q.fams = p.fams \cup {cred.fam} /\ q.unfit = p.unfit \cap unfit /\ q.refused = p.refused \cup unfit

LEMMA HandledHolds ==
  ASSUME Granted, NEW list, Kept(list), NEW p \in Seeder!InProgress, Holds(list, p), NEW cred \in Cred, NEW sender,
         NEW unfit \in SUBSET Seeder!Ip, NEW q \in Seeder!InProgress, Handled(list, sender, cred, unfit, p, q)
  PROVE  Holds(list, q)
<1> USE DEF Handled
<1>1. p.out \in Seq(Cred) /\ q.out \in Seq(Cred) /\ Respond \in Nat /\ p.known \in Nat
  BY DEF Seeder!InProgress, Granted
<1>2. /\ Adds(list, cred, unfit, p.out, q.out)
      /\ Len(q.out) = Len(p.out) + Respond \/ Enough(list, DOMAIN list, cred, unfit, q.out)
  BY <1>1, SelectedAdds
<1>3. /\ Len(p.out) \in Nat /\ DOMAIN p.out = 1..Len(p.out)
      /\ Len(q.out) \in Nat /\ DOMAIN q.out = 1..Len(q.out) /\ Len(p.out) <= Len(q.out)
  BY <1>1, <1>2 DEF Adds
<1>4. \A n \in DOMAIN p.out : n \in DOMAIN q.out /\ q.out[n] = p.out[n]
  BY <1>2, <1>3 DEF Adds
<1>5. Single(q.out) /\ q.known <= Len(list)
  BY <1>2 DEF Adds, Holds
<1>6. ASSUME NEW n \in DOMAIN q.out
      PROVE  q.out[n].ip \notin q.unfit /\ q.out[n].fam \in q.fams /\ Given(list, q.out[n])
  <2>1. CASE n \in DOMAIN p.out
    BY <1>4, <2>1 DEF Holds
  <2>2. CASE n \notin DOMAIN p.out
    <3>1. n \in 1..Len(q.out) /\ n > Len(p.out)
      BY <1>3, <2>2
    <3>2. PICK i \in DOMAIN list : Fitting(list[i], cred, unfit) /\ q.out[n] = list[i].creds
      BY <1>2, <3>1 DEF Adds
    <3>3. list[i].creds.ip = list[i].ip /\ list[i].first \in PubId
      BY <3>2 DEF Kept, Fitting
    <3> QED BY <3>2, <3>3 DEF Fitting, Given
  <2> QED BY <2>1, <2>2
<1>7. CASE Len(q.out) = Len(p.out) + Respond
  <2>1. Len(q.out) >= Respond
    BY <1>1, <1>3, <1>7
  <2> QED BY <1>5, <1>6, <2>1 DEF Holds
<1>8. CASE Enough(list, DOMAIN list, cred, unfit, q.out)
  <2>1. CASE Len(p.out) >= Respond
    <3>1. Len(q.out) >= Respond
      BY <1>1, <1>3, <2>1
    <3> QED BY <1>5, <1>6, <3>1 DEF Holds
  <2>2. CASE \A i \in 1..p.known : Wanted(list[i], p) => \E n \in DOMAIN p.out : p.out[n] = list[i].creds
    <3>1. ASSUME NEW i \in 1..p.known, Wanted(list[i], q)
          PROVE  \E n \in DOMAIN q.out : q.out[n] = list[i].creds
      <4>1. i \in DOMAIN list
        BY <1>1 DEF Holds, Kept
      <4>2. CASE list[i].creds.fam = cred.fam
        BY <1>8, <3>1, <4>1, <4>2 DEF Wanted, Fitting, Enough
      <4>3. CASE list[i].creds.fam # cred.fam
        <5>1. Wanted(list[i], p)
          BY <3>1, <4>3 DEF Wanted
        <5> QED BY <1>4, <2>2, <5>1
      <4> QED BY <4>2, <4>3
    <3> QED BY <1>5, <1>6, <3>1 DEF Holds
  <2> QED BY <2>1, <2>2 DEF Holds
<1> QED BY <1>2, <1>7, <1>8

\* What was listed for the nameserver at some time.
Listed(list, l, t) ==
  \A n \in DOMAIN l : Given(list, l[n].creds) /\ ~l[n].error /\ l[n].check + Cutoff > t

\* What a node was answered with.
Satisfied(list, a) ==
  /\ a.got \in Seq(Cred) /\ Len(a.got) <= Respond /\ Single(a.got)
  /\ \A n \in DOMAIN a.got : a.got[n].ip \notin a.unfit /\ a.got[n].fam \in a.fams /\ Given(list, a.got[n])
  /\ Len(a.got) < Respond =>
       \A i \in 1..a.known : Wanted(list[i], a) => \E n \in DOMAIN a.got : a.got[n] = list[i].creds

SeedInv ==
  /\ Seeder!TypeOK /\ Kept(peers)
  /\ \A r \in InFlight : post[r].at = "creds" => Holds(peers, post[r])
  /\ Listed(peers, asked.list, asked.at) /\ Listed(peers, cache.list, cache.at)
  /\ asked.at <= now /\ cache.at <= cache.updated /\ cache.updated <= now
  /\ reply.kind = "creds" => Satisfied(peers, reply)

LEMMA ListedStays ==
  ASSUME NEW list, NEW new, Kept(list), Kept(new), Grown(list, new), NEW l, NEW t, Listed(list, l, t)
  PROVE  Listed(new, l, t)
BY GivenStays DEF Listed

LEMMA AnswerSatisfies ==
  ASSUME Granted, NEW list, NEW p \in Seeder!InProgress, Holds(list, p), NEW got \in Seeder!Trimmed(p.out), NEW a,
         a.got = got, a.known = p.known, a.fams = p.fams, a.unfit = p.unfit, a.refused = p.refused
  PROVE  Satisfied(list, a)
<1>1. p.out \in Seq(Cred) /\ Respond \in Nat /\ Single(p.out)
  BY DEF Seeder!InProgress, Granted, Holds
<1>2. /\ got \in Seq(Cred) /\ Len(got) <= Respond /\ Single(got)
      /\ \A n \in DOMAIN got : \E m \in DOMAIN p.out : got[n] = p.out[m]
      /\ got = p.out \/ Len(got) = Respond
  BY <1>1, TrimmedFits
<1>3. \A n \in DOMAIN got : got[n].ip \notin p.unfit /\ got[n].fam \in p.fams /\ Given(list, got[n])
  BY <1>2 DEF Holds
<1>4. ASSUME Len(got) < Respond, NEW i \in 1..p.known, Wanted(list[i], a)
      PROVE  \E n \in DOMAIN got : got[n] = list[i].creds
  <2>1. got = p.out /\ ~(Len(p.out) >= Respond)
    BY <1>1, <1>2, <1>4
  <2>2. Wanted(list[i], p)
    BY <1>4 DEF Wanted
  <2> QED BY <1>4, <2>1, <2>2 DEF Holds
<1> QED BY <1>2, <1>3, <1>4 DEF Satisfied

LEMMA ListPeersListed ==
  ASSUME Granted, Seeder!TypeOK, Kept(peers), NEW unfit
  PROVE  Seeder!ListPeers(unfit) \in Seq(Seeder!Entry) /\ Listed(peers, Seeder!ListPeers(unfit), now)
<1> DEFINE K == { i \in DOMAIN peers : Seeder!Shareable(peers[i]) /\ peers[i].ip \notin unfit }
           ok == Pick(peers, K)
           most == IF Share = 0 THEN 1 ELSE Share
           m == IF Len(ok) < most THEN Len(ok) ELSE most
<1>1. peers \in Seq(Seeder!Entry) /\ K \in SUBSET DOMAIN peers
  BY DEF Seeder!TypeOK
<1>2. \A i \in K : Seeder!Shareable(peers[i])
  OBVIOUS
<1>3. Seeder!ListPeers(unfit) = SubSeq(ok, 1, m)
  BY SamePick DEF Seeder!ListPeers
<1> HIDE DEF K
<1>4. ok \in Seq(Seeder!Entry) /\ \A n \in DOMAIN ok : \E i \in K : ok[n] = peers[i]
  BY <1>1, PickElements
<1> HIDE DEF ok
<1>5. Len(ok) \in Nat /\ m \in Nat /\ m <= Len(ok) /\ DOMAIN ok = 1..Len(ok)
  BY <1>4 DEF Granted
<1> HIDE DEF m
<1>6. /\ Seeder!ListPeers(unfit) \in Seq(Seeder!Entry) /\ DOMAIN Seeder!ListPeers(unfit) = 1..m
      /\ \A n \in 1..m : Seeder!ListPeers(unfit)[n] = ok[n]
  BY <1>3, <1>4, <1>5
<1>7. ASSUME NEW n \in 1..m
      PROVE  Given(peers, Seeder!ListPeers(unfit)[n].creds) /\ ~Seeder!ListPeers(unfit)[n].error
             /\ Seeder!ListPeers(unfit)[n].check + Cutoff > now
  <2>1. PICK i \in K : Seeder!ListPeers(unfit)[n] = peers[i]
    BY <1>4, <1>5, <1>6
  <2>2. i \in DOMAIN peers /\ Seeder!Shareable(peers[i])
    BY <1>1, <1>2, <2>1
  <2>3. peers[i].first \in PubId
    BY <2>2 DEF Seeder!Shareable, Kept
  <2> QED BY <2>1, <2>2, <2>3 DEF Seeder!Shareable, Given
<1> QED BY <1>6, <1>7 DEF Listed

\* What stays when the peers may have changed and the rest has not.
LEMMA PeersMove ==
  ASSUME SeedInv, Kept(peers'), Grown(peers, peers'), UNCHANGED <<now, asked, cache>>, reply' = Seeder!NoReply,
         post' \in [InFlight -> Seeder!InProgress \cup {Seeder!NoPost}],
         \A r \in InFlight : post'[r].at = "creds" => Holds(peers', post'[r])
  PROVE  SeedInv'
<1>1. Seeder!TypeOK'
  BY DEF SeedInv, Seeder!TypeOK, Kept
<1>2. Listed(peers', asked.list, asked.at) /\ Listed(peers', cache.list, cache.at)
  BY ListedStays DEF SeedInv
<1>3. asked' = asked /\ cache' = cache /\ now' = now
  OBVIOUS
<1>4. Listed(peers, asked.list, asked.at)' /\ Listed(peers, cache.list, cache.at)'
  BY <1>2, <1>3 DEF Listed, Given
<1>5. reply'.kind # "creds"
  BY DEF Seeder!NoReply
<1>6. Kept(peers)' /\ \A r \in InFlight : post'[r].at = "creds" => Holds(peers, post[r])'
  BY DEF Kept, Holds, Given, Wanted
<1>7. (asked.at <= now /\ cache.at <= cache.updated /\ cache.updated <= now)'
  BY <1>3 DEF SeedInv
<1> QED BY <1>1, <1>4, <1>5, <1>6, <1>7 DEF SeedInv

LEMMA SeedStarts ==
  ASSUME Granted
  PROVE  Seeder!Init => SeedInv
<1> SUFFICES ASSUME Seeder!Init  PROVE  SeedInv
  OBVIOUS
<1>1. /\ now = 0 /\ peers = <<>> /\ asked.at = Seeder!Never /\ asked.list = <<>>
      /\ cache.list = <<>> /\ cache.at = Seeder!Never /\ cache.updated = Seeder!Never /\ reply.kind = "none"
      /\ post = [r \in InFlight |-> Seeder!NoPost] /\ Seeder!NoPost.at = "idle"
  BY DEF Seeder!Init, Seeder!NoReply, Seeder!NoPost
<1>2. Seeder!TypeOK
  BY <1>1 DEF Seeder!TypeOK, Granted
<1>3. Kept(peers)
  BY <1>1 DEF Kept
<1>4. Listed(peers, asked.list, asked.at) /\ Listed(peers, cache.list, cache.at)
  BY <1>1 DEF Listed
<1> QED BY <1>1, <1>2, <1>3, <1>4 DEF SeedInv, Seeder!Never

\* Nothing but the posts in progress and the answer changes.
LEMMA PostsMove ==
  ASSUME SeedInv, UNCHANGED <<now, peers, asked, cache>>,
         post' \in [InFlight -> Seeder!InProgress \cup {Seeder!NoPost}],
         \A r \in InFlight : post'[r].at = "creds" => Holds(peers, post'[r]),
         reply'.kind = "creds" => Satisfied(peers, reply')
  PROVE  SeedInv'
<1>1. Seeder!TypeOK'
  BY DEF SeedInv, Seeder!TypeOK
<1>2. now' = now /\ peers' = peers /\ asked' = asked /\ cache' = cache
  OBVIOUS
<1>3. Listed(peers, asked.list, asked.at)' /\ Listed(peers, cache.list, cache.at)' /\ Kept(peers)'
  BY <1>2 DEF SeedInv, Listed, Given, Kept
<1>4. (reply.kind = "creds" => Satisfied(peers, reply))'
  BY <1>2 DEF Satisfied, Given, Wanted
<1>5. \A r \in InFlight : post'[r].at = "creds" => Holds(peers, post[r])'
  BY <1>2 DEF Holds, Given, Wanted
<1> QED BY <1>1, <1>2, <1>3, <1>4, <1>5 DEF SeedInv

LEMMA SeedMoves ==
  ASSUME Granted
  PROVE  SeedInv /\ [Seeder!Next]_(Seeder!vars) => SeedInv'
<1> SUFFICES ASSUME SeedInv, [Seeder!Next]_(Seeder!vars)  PROVE  SeedInv'
  OBVIOUS
<1> USE DEF Seeder!NoReply
<1>0. /\ post \in [InFlight -> Seeder!InProgress \cup {Seeder!NoPost}] /\ peers \in Seq(Seeder!Entry)
      /\ now \in 0..MaxTime /\ Kept(peers) /\ MaxTime \in Nat
  BY DEF SeedInv, Seeder!TypeOK, Granted
<1>1. CASE UNCHANGED Seeder!vars
  <2>1. /\ post' \in [InFlight -> Seeder!InProgress \cup {Seeder!NoPost}]
        /\ \A r \in InFlight : post'[r].at = "creds" => Holds(peers, post'[r])
        /\ reply'.kind = "creds" => Satisfied(peers, reply')
    BY <1>0, <1>1 DEF SeedInv, Seeder!vars
  <2> QED BY <1>1, <2>1, PostsMove DEF Seeder!vars
<1>2. CASE Seeder!Tick
  <2>1. now' = now + 1 /\ now' \in 0..MaxTime /\ UNCHANGED <<peers, post, asked, cache>> /\ reply'.kind # "creds"
    BY <1>0, <1>2 DEF Seeder!Tick
  <2>2. peers' = peers /\ post' = post /\ asked' = asked /\ cache' = cache
    BY <2>1
  <2>3. Seeder!TypeOK'
    BY <2>1, <2>2 DEF SeedInv, Seeder!TypeOK
  <2>4. (asked.at <= now /\ cache.at <= cache.updated /\ cache.updated <= now)'
    <3>1. asked.at \in Int /\ cache.updated \in Int
      BY <1>0 DEF SeedInv, Seeder!TypeOK, Seeder!Never
    <3> QED BY <1>0, <2>1, <2>2, <3>1 DEF SeedInv
  <2>5. /\ Listed(peers, asked.list, asked.at)' /\ Listed(peers, cache.list, cache.at)' /\ Kept(peers)'
        /\ \A r \in InFlight : post'[r].at = "creds" => Holds(peers, post[r])'
    BY <2>2 DEF SeedInv, Listed, Given, Kept, Holds, Wanted
  <2> QED BY <2>1, <2>3, <2>4, <2>5 DEF SeedInv
<1>3. CASE Seeder!TestRes
  <2>1. PICK i \in DOMAIN peers, err \in Result :
          LET same == { k \in DOMAIN peers :
                          peers[k].creds.addr = peers[i].creds.addr /\ peers[k].ip = peers[i].ip }
              first == CHOOSE k \in same : \A l \in same : k <= l
          IN /\ peers' = [peers EXCEPT ![first] = [@ EXCEPT !.error = err, !.check = now]]
             /\ reply' = Seeder!NoReply
             /\ UNCHANGED <<now, post, asked, cache>>
    BY <1>3 DEF Seeder!TestRes
  <2> DEFINE same == { k \in DOMAIN peers :
                         peers[k].creds.addr = peers[i].creds.addr /\ peers[k].ip = peers[i].ip }
             first == CHOOSE k \in same : \A l \in same : k <= l
             e == [peers[first] EXCEPT !.error = err, !.check = now]
  <2>2. DOMAIN peers = 1..Len(peers) /\ Len(peers) \in Nat
    BY <1>0
  <2>3. same \in SUBSET Int /\ IsFiniteSet(same) /\ same # {}
    <3>1. IsFiniteSet(1..Len(peers)) /\ same \in SUBSET (1..Len(peers))
      BY <2>2, FS_Interval
    <3>2. i \in same
      OBVIOUS
    <3> QED BY <2>2, <3>1, <3>2, FS_Subset
  <2> HIDE DEF same
  <2>4. first \in same
    BY <2>3, LeastElement
  <2>5. first \in DOMAIN peers
    BY <2>4 DEF same
  <2>6. peers' = [peers EXCEPT ![first] = e] /\ UNCHANGED <<now, post, asked, cache>> /\ reply' = Seeder!NoReply
    BY <2>1 DEF same
  <2>7. peers[first] \in Seeder!Entry /\ err \in BOOLEAN
    BY <1>0, <2>5 DEF Granted
  <2> HIDE DEF first
  <2>8. e \in Seeder!Entry
    BY <1>0, <2>7 DEF Seeder!Entry
  <2>9. Same(peers[first], e)
    BY <2>7 DEF Seeder!Entry, Same
  <2> HIDE DEF e
  <2>10. peers' \in Seq(Seeder!Entry) /\ Len(peers') = Len(peers) /\ DOMAIN peers' = DOMAIN peers
    <3>1. \A k \in DOMAIN peers : peers[k] \in Seeder!Entry
      BY <1>0
    <3>2. peers' \in [1..Len(peers) -> Seeder!Entry]
      BY <2>2, <2>5, <2>6, <2>8, <3>1
    <3> QED BY <2>2, <3>2
  <2>11. \A k \in DOMAIN peers : Same(peers[k], peers'[k])
    BY <2>5, <2>6, <2>9 DEF Same
  <2>12. Grown(peers, peers')
    BY <2>2, <2>10, <2>11 DEF Grown
  <2>13. Kept(peers')
    BY <1>0, <2>10, <2>11 DEF Kept, Same
  <2>14. \A r \in InFlight : post'[r].at = "creds" => Holds(peers', post'[r])
    <3> SUFFICES ASSUME NEW r \in InFlight, post[r].at = "creds"  PROVE  Holds(peers', post[r])
      BY <2>6
    <3>1. post[r].known \in Nat
      BY <1>0 DEF Seeder!InProgress, Seeder!NoPost
    <3>2. Holds(peers, post[r])
      BY DEF SeedInv
    <3> QED BY <1>0, <2>12, <2>13, <3>1, <3>2, HoldsStays
  <2>15. post' \in [InFlight -> Seeder!InProgress \cup {Seeder!NoPost}]
    BY <1>0, <2>6
  <2> QED BY <2>6, <2>12, <2>13, <2>14, <2>15, PeersMove
<1>4. CASE Seeder!Ask
  <2>1. PICK unfit \in Unfit : asked' = [at |-> now, list |-> Seeder!ListPeers(unfit)]
    BY <1>4 DEF Seeder!Ask
  <2>2. asked'.at = now /\ asked'.list = Seeder!ListPeers(unfit)
    BY <2>1
  <2>3. Seeder!ListPeers(unfit) \in Seq(Seeder!Entry) /\ Listed(peers, Seeder!ListPeers(unfit), now)
    BY ListPeersListed DEF SeedInv
  <2>4. now' = now /\ peers' = peers /\ post' = post /\ cache' = cache /\ reply'.kind # "creds"
    BY <1>4 DEF Seeder!Ask
  <2>5. Seeder!TypeOK'
    BY <2>2, <2>3, <2>4 DEF SeedInv, Seeder!TypeOK
  <2>6. Listed(peers, asked.list, asked.at)'
    BY <2>2, <2>3, <2>4 DEF Listed, Given
  <2>7. Listed(peers, cache.list, cache.at)' /\ Kept(peers)'
        /\ \A r \in InFlight : post'[r].at = "creds" => Holds(peers, post[r])'
    BY <2>4 DEF SeedInv, Listed, Given, Kept, Holds, Wanted
  <2>8. (asked.at <= now /\ cache.at <= cache.updated /\ cache.updated <= now)'
    BY <1>0, <2>2, <2>4 DEF SeedInv
  <2> QED BY <2>4, <2>5, <2>6, <2>7, <2>8 DEF SeedInv
<1>5. CASE Seeder!Store
  <2>1. /\ now' = now /\ peers' = peers /\ post' = post /\ reply'.kind # "creds"
        /\ asked'.at = Seeder!Never /\ asked'.list = <<>>
    BY <1>5 DEF Seeder!Store
  <2>2. \/ cache'.list = asked.list /\ cache'.at = asked.at /\ cache'.updated = now
        \/ cache' = cache
    BY <1>5 DEF Seeder!Store
  <2>3. Seeder!TypeOK'
    BY <2>1, <2>2 DEF SeedInv, Seeder!TypeOK
  <2>4. Listed(peers, asked.list, asked.at)'
    BY <2>1 DEF Listed
  <2>5. Listed(peers, cache.list, cache.at)'
    BY <2>1, <2>2 DEF SeedInv, Listed, Given
  <2>6. Kept(peers)' /\ \A r \in InFlight : post'[r].at = "creds" => Holds(peers, post[r])'
    BY <2>1 DEF SeedInv, Given, Kept, Holds, Wanted
  <2>7. (asked.at <= now /\ cache.at <= cache.updated /\ cache.updated <= now)'
    BY <1>0, <2>1, <2>2 DEF SeedInv, Seeder!Never
  <2> QED BY <2>1, <2>3, <2>4, <2>5, <2>6, <2>7 DEF SeedInv
<1>6. ASSUME NEW r \in InFlight, Seeder!Open(r)  PROVE  SeedInv'
  <2>1. PICK p \in Posts :
          post' = [post EXCEPT ![r] =
            [at |-> "creds", sender |-> p.sender, id |-> p.id, left |-> p.creds, out |-> <<>>,
             known |-> Len(peers), fams |-> {}, unfit |-> Seeder!Ip, refused |-> {}]]
    BY <1>6 DEF Seeder!Open
  <2> DEFINE q == [at |-> "creds", sender |-> p.sender, id |-> p.id, left |-> p.creds, out |-> <<>>,
                   known |-> Len(peers), fams |-> {}, unfit |-> Seeder!Ip, refused |-> {}]
  <2>2. q \in Seeder!InProgress
    <3>1. p.creds \in Seq(Cred) /\ p.id \in Seeder!Id /\ p.sender \in { x.sender : x \in Posts } /\ Len(peers) \in Nat
      BY <1>0 DEF Granted, Seeder!Id
    <3> QED BY <3>1 DEF Seeder!InProgress
  <2>3. Holds(peers, q)
    BY <1>0 DEF Holds, Single, Wanted
  <2> HIDE DEF q
  <2>4. post' = [post EXCEPT ![r] = q]
    BY <2>1 DEF q
  <2>5. post' \in [InFlight -> Seeder!InProgress \cup {Seeder!NoPost}]
    BY <1>0, <2>2, <2>4
  <2>6. \A x \in InFlight : post'[x].at = "creds" => Holds(peers, post'[x])
    BY <1>0, <2>3, <2>4 DEF SeedInv
  <2>7. UNCHANGED <<now, peers, asked, cache>> /\ reply'.kind # "creds"
    BY <1>6 DEF Seeder!Open
  <2> QED BY <2>5, <2>6, <2>7, PostsMove
<1>7. ASSUME NEW r \in InFlight, Seeder!Refuse(r)  PROVE  SeedInv'
  <2>1. post' = [post EXCEPT ![r] = Seeder!NoPost] /\ Seeder!NoPost.at # "creds"
    BY <1>7 DEF Seeder!Refuse, Seeder!NoPost
  <2>2. post' \in [InFlight -> Seeder!InProgress \cup {Seeder!NoPost}]
    BY <1>0, <2>1
  <2>3. \A x \in InFlight : post'[x].at = "creds" => Holds(peers, post'[x])
    BY <1>0, <2>1 DEF SeedInv
  <2>4. UNCHANGED <<now, peers, asked, cache>> /\ reply'.kind # "creds"
    BY <1>7 DEF Seeder!Refuse
  <2> QED BY <2>2, <2>3, <2>4, PostsMove
<1>8. ASSUME NEW r \in InFlight, Seeder!HandleCred(r)  PROVE  SeedInv'
  <2> DEFINE p == post[r]
             cred == Head(p.left)
             list == Seeder!Recorded(peers, p.sender, p.id, cred)
  <2>1. p.at = "creds" /\ p.left # <<>> /\ cred.ip = p.sender
        /\ UNCHANGED <<now, asked, cache>> /\ reply' = Seeder!NoReply
    BY <1>8 DEF Seeder!HandleCred
  <2>2. PICK others \in Unfit :
          /\ peers' = list
          /\ post' = [post EXCEPT ![r] =
               [p EXCEPT !.left = Tail(@), !.out = Seeder!Selected(list, p.sender, cred, others \cup {p.sender}, @),
                         !.fams = @ \cup {cred.fam}, !.unfit = @ \cap (others \cup {p.sender}),
                         !.refused = @ \cup (others \cup {p.sender})]]
    BY <1>8 DEF Seeder!HandleCred
  <2> DEFINE unfit == others \cup {p.sender}
             all == Seeder!Selected(list, p.sender, cred, unfit, p.out)
             q == [p EXCEPT !.left = Tail(p.left), !.out = all, !.fams = p.fams \cup {cred.fam},
                            !.unfit = p.unfit \cap unfit, !.refused = p.refused \cup unfit]
  <2>3. post' = [post EXCEPT ![r] = q]
    BY <2>2
  <2>4. p \in Seeder!InProgress
    BY <1>0, <2>1 DEF Seeder!NoPost
  <2> HIDE DEF p
  <2>5. /\ p.left \in Seq(Cred) /\ p.out \in Seq(Cred) /\ p.known \in Nat /\ p.id \in Seeder!Id
        /\ p.fams \in SUBSET { c.fam : c \in Cred } /\ p.unfit \in SUBSET Seeder!Ip /\ p.refused \in SUBSET Seeder!Ip
    BY <2>4 DEF Seeder!InProgress
  <2>6. cred \in Cred /\ Tail(p.left) \in Seq(Cred)
    BY <2>1, <2>5
  <2> HIDE DEF cred
  <2>7. p.sender \in Seeder!Ip /\ unfit \in SUBSET Seeder!Ip /\ cred.fam \in { c.fam : c \in Cred }
    BY <2>1, <2>6 DEF Seeder!Ip, Granted
  <2>8. Kept(list) /\ Grown(peers, list)
    BY <1>0, <2>1, <2>5, <2>6, <2>7, RecordedGrows
  <2> HIDE DEF list, unfit
  <2>9. all \in Seq(Cred)
    BY <2>5, <2>8, SelectedAdds DEF Adds
  <2> HIDE DEF all
  <2>10. q \in Seeder!InProgress
    BY <2>4, <2>5, <2>6, <2>7, <2>9 DEF Seeder!InProgress
  <2>11. /\ q.known = p.known /\ q.out = all /\ q.fams = p.fams \cup {cred.fam}
         /\ q.unfit = p.unfit \cap unfit /\ q.refused = p.refused \cup unfit
    BY <2>4 DEF Seeder!InProgress
  <2> HIDE DEF q
  <2>12. Holds(peers, p)
    BY <2>1 DEF SeedInv, p
  <2>13. Holds(list, p)
    BY <1>0, <2>5, <2>8, <2>12, HoldsStays
  <2>14. Holds(list, q)
    <3>1. q.out = Seeder!Selected(list, p.sender, cred, unfit, p.out)
      BY <2>11 DEF all
    <3>2. Handled(list, p.sender, cred, unfit, p, q)
      BY <2>11, <3>1 DEF Handled
    <3> QED BY <2>4, <2>6, <2>7, <2>8, <2>10, <2>13, <3>2, HandledHolds
  <2>15. peers' = list
    BY <2>2
  <2>16. ASSUME NEW x \in InFlight, post'[x].at = "creds"  PROVE  Holds(peers', post'[x])
    <3>1. CASE x = r
      <4>1. post'[x] = q
        BY <1>0, <2>3, <3>1
      <4> QED BY <2>14, <2>15, <4>1
    <3>2. CASE x # r
      <4>1. post'[x] = post[x]
        BY <1>0, <2>3, <3>2
      <4>2. post[x].known \in Nat /\ Holds(peers, post[x])
        BY <1>0, <2>16, <4>1 DEF Seeder!InProgress, Seeder!NoPost, SeedInv
      <4>3. Holds(list, post[x])
        BY <1>0, <2>8, <4>2, HoldsStays
      <4> QED BY <2>15, <4>1, <4>3
    <3> QED BY <3>1, <3>2
  <2>17. post' \in [InFlight -> Seeder!InProgress \cup {Seeder!NoPost}]
    BY <1>0, <2>3, <2>10
  <2>18. Kept(peers') /\ Grown(peers, peers')
    BY <2>8, <2>15
  <2> QED BY <2>1, <2>16, <2>17, <2>18, PeersMove
<1>9. ASSUME NEW r \in InFlight, Seeder!Answer(r)  PROVE  SeedInv'
  <2>1. PICK got \in Seeder!Trimmed(post[r].out) :
          reply' = [kind |-> "creds", got |-> got, known |-> post[r].known, fams |-> post[r].fams,
                    unfit |-> post[r].unfit, refused |-> post[r].refused]
    BY <1>9 DEF Seeder!Answer
  <2>2. post[r].at = "creds" /\ post' = [post EXCEPT ![r] = Seeder!NoPost] /\ UNCHANGED <<now, peers, asked, cache>>
        /\ Seeder!NoPost.at # "creds"
    BY <1>9 DEF Seeder!Answer, Seeder!NoPost
  <2>3. post[r] \in Seeder!InProgress /\ Holds(peers, post[r])
    BY <1>0, <2>2 DEF SeedInv
  <2>4. /\ reply'.got = got /\ reply'.known = post[r].known /\ reply'.fams = post[r].fams
        /\ reply'.unfit = post[r].unfit /\ reply'.refused = post[r].refused
    BY <2>1
  <2>5. Satisfied(peers, reply')
    BY <1>0, <2>3, <2>4, AnswerSatisfies
  <2>6. post' \in [InFlight -> Seeder!InProgress \cup {Seeder!NoPost}]
    BY <1>0, <2>2
  <2>7. \A x \in InFlight : post'[x].at = "creds" => Holds(peers, post'[x])
    BY <1>0, <2>2 DEF SeedInv
  <2> QED BY <2>2, <2>5, <2>6, <2>7, PostsMove
<1> QED BY <1>1, <1>2, <1>3, <1>4, <1>5, <1>6, <1>7, <1>8, <1>9 DEF Seeder!Next

\* Whatever nodes post, and however posts and the reports of tests fall among each other, a node is
\* answered with peers of others that fit, with as many as there is room for if there are so many,
\* and never with one recorded as private; and a TXT record holds only peers that a test reached not
\* too long ago.  (post_credentials, list_peers, update_peers)
THEOREM SeedsRight ==
  ASSUME Granted
  PROVE  Seeder!Spec => [](Seeder!AnswersFit /\ Seeder!AnswersFull /\ Seeder!FirstIdDecides /\ Seeder!SeedsTested)
<1>1. SeedInv => Seeder!AnswersFit /\ Seeder!AnswersFull
  <2> SUFFICES ASSUME SeedInv, reply.kind = "creds"  PROVE  Seeder!AnswersFit /\ Seeder!AnswersFull
    BY DEF Seeder!AnswersFit, Seeder!AnswersFull
  <2>1. Satisfied(peers, reply)
    BY DEF SeedInv
  <2>2. Seeder!AnswersFit
    BY <2>1 DEF Satisfied, Single, Seeder!AnswersFit, Seeder!ToSet, Seeder!IsInjective
  <2>3. Seeder!AnswersFull
    BY <2>1 DEF Satisfied, Wanted, Seeder!AnswersFull, Seeder!ToSet
  <2> QED BY <2>2, <2>3
<1>2. SeedInv => Seeder!FirstIdDecides
  <2> SUFFICES ASSUME SeedInv,
                      NEW c \in (IF reply.kind = "creds" THEN Seeder!ToSet(reply.got) ELSE {})
                                \cup { p.creds : p \in Seeder!ToSet(cache.list) }
               PROVE  \E p \in Seeder!EntriesOf(c) : p.first \in PubId
    BY DEF Seeder!FirstIdDecides
  <2>1. Given(peers, c)
    BY DEF SeedInv, Satisfied, Listed, Seeder!ToSet
  <2> QED BY <2>1 DEF Given, Seeder!EntriesOf, Seeder!ToSet
<1>3. SeedInv => Seeder!SeedsTested
  <2> SUFFICES ASSUME SeedInv, NEW p \in Seeder!Seeds
               PROVE  ~p.error /\ now - p.check < Cutoff + MaxAge + (cache.updated - cache.at)
    BY DEF Seeder!SeedsTested
  <2>1. PICK n \in DOMAIN cache.list : p = cache.list[n]
    BY DEF Seeder!Seeds, Seeder!ToSet
  <2>2. ~p.error /\ p.check + Cutoff > cache.at
    BY <2>1 DEF SeedInv, Listed
  <2>3. cache.updated # Seeder!Never /\ ~(now - cache.updated > MaxAge)
    BY DEF Seeder!Seeds, Seeder!TooOld
  <2>4. p.check \in Int /\ cache.at \in Int /\ cache.updated \in Int /\ now \in Int
    <3>1. p \in Seeder!Entry
      BY <2>1 DEF SeedInv, Seeder!TypeOK
    <3> QED BY <3>1 DEF Seeder!Entry, SeedInv, Seeder!TypeOK, Seeder!Never, Granted
  <2>5. MaxAge \in Nat /\ Cutoff \in Nat
    BY DEF Granted
  <2> QED BY <2>2, <2>3, <2>4, <2>5
<1> QED BY <1>1, <1>2, <1>3, SeedStarts, SeedMoves, PTL DEF Seeder!Spec
=============================================================================
