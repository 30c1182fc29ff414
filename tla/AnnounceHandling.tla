-------------------------- MODULE AnnounceHandling --------------------------
(***************************************************************************)
(* How the supernode (cjdns-snode) handles route announcements: the tasks  *)
(* that run handle_announce_impl (server.rs) against the table of nodes    *)
(* (server/nodes.rs) and the list of announcements it serves to other      *)
(* supernodes (peer/ann_list.rs), at the granularity of their locks, with  *)
(* the task that cleans the table every 30 seconds.                        *)
(*                                                                         *)
(* Handlers: "gossip" takes announcements fetched from peer supernodes     *)
(* (source = None), "service" those of nodes that use this supernode       *)
(* (source = Some).  Each runs one announcement at a time.  An             *)
(* Arc<Node> is a member of Obj: a handler that looked a node up keeps     *)
(* its object even when the table has moved on to another.                 *)
(***************************************************************************)
EXTENDS Announcements

CONSTANTS Ann,            \* the announcements that may arrive
          Handlers,       \* the tasks that handle them
          Obj,            \* heap cells for Arc<Node>
          SelfIp,         \* address of the local node
          GlobalTimeout,  \* GLOBAL_TIMEOUT
          MaxClockSkew,   \* MAX_CLOCKSKEW
          MaxNow,         \* bound on the clock
          MaxDeliveries,  \* bound on how often one announcement arrives
          None            \* Option::None

ASSUME AnnAssumption == Ann \subseteq Announcement
ASSUME HandlersAssumption == Handlers \subseteq {"gossip", "service"}
ASSUME SelfAssumption == SelfIp \in Ip
ASSUME TimeAssumption == GlobalTimeout \in Nat /\ MaxClockSkew \in Nat /\ MaxNow \in Nat
ASSUME DeliveryAssumption == MaxDeliveries \in Nat \ {0}

VARIABLES now,      \* the wall clock
          selfNode, \* ServerMut.self_node: None or SelfIp
          nodes,    \* Nodes.nodes_by_ip: Ip -> Obj or None
          heap,     \* the Node behind each Arc, None when freed
          served,   \* AnnList: hashes offered to peers, with their data
          h,        \* the handlers' control and local state
          arrived,  \* how often each announcement has arrived
          panicked  \* a task panicked: main() returns and the process ends

vars == <<now, selfNode, nodes, heap, served, h, arrived, panicked>>

LinkKey == Ip \X PeerNum

\* A link of Node.inward_links_by_ip; mtu, flags and value are left out.
Link == [label : Nat, form : Nat, recent : Nat, slots : SUBSET Int]

NodeState == [ip : Ip, ts : Nat, anns : Seq(Ann), hash : Seq(Ann) \cup {None},
              reset : Ann, links : [LinkKey -> Link \cup {None}]]

ASSUME NoneAssumption == None \notin Obj /\ None \notin Ann /\ None \notin Ip
                         /\ None \notin Link /\ None \notin NodeState /\ None \notin Seq(Ann)

PC == {"off", "idle", "lookup", "check1", "check2", "new_node", "add_node", "add_ann",
       "links", "has_ann", "publish", "inv", "hash"}

Handler == [pc : PC, ann : Ann \cup {None}, self : Ip \cup {None},
            node : Obj \cup {None}, next : Nat]

\* What the table, the cells and the handlers hold is of its type.
TypeOK ==
  /\ now \in 0..MaxNow
  /\ selfNode \in {None, SelfIp}
  /\ nodes \in [Ip -> Obj \cup {None}]
  /\ heap \in [Obj -> NodeState \cup {None}]
  /\ served \subseteq Ann
  /\ h \in [Handlers -> Handler]
  /\ arrived \in [Ann -> 0..MaxDeliveries]
  /\ panicked \in BOOLEAN

At(pc) == [pc |-> pc, ann |-> None, self |-> None, node |-> None, next |-> 0]

Init ==
  /\ now = 0
  /\ selfNode = None
  /\ nodes = [ip \in Ip |-> None]
  /\ heap = [o \in Obj |-> None]
  /\ served = {}
  /\ h = [p \in Handlers |-> At(IF p = "service" THEN "off" ELSE "idle")]
  /\ arrived = [a \in Ann |-> 0]
  /\ panicked = FALSE

-----------------------------------------------------------------------------
(* Arcs: a cell is freed when neither the table nor a handler holds it.      *)

Referenced(tbl, hs) == { tbl[ip] : ip \in Ip } \cup { hs[p].node : p \in Handlers }

Collect(hp, tbl, hs) == [o \in Obj |-> IF o \in Referenced(tbl, hs) THEN hp[o] ELSE None]

ToPc(p, pc) == [h EXCEPT ![p].pc = pc]

\* The handler returns: an error ends the service connection (service.rs `?`).
Return(p) == [h EXCEPT ![p] = At("idle")]

Fail(p) == [h EXCEPT ![p] = At(IF p = "service" THEN "off" ELSE "idle")]

-----------------------------------------------------------------------------
(* The table of nodes                                                        *)

\* Mutant of Forgotten: forget_node that overlooks the reset message.
ForgottenButReset(node) == { node.anns[i] : i \in DOMAIN node.anns }

\* forget_node: what it takes out of the announcement list.
Forgotten(node) == { node.anns[i] : i \in DOMAIN node.anns } \cup {node.reset}

\* Mutant of NewNode: the reset message is not kept.
NewNodeNoReset(ann) ==
  [ip |-> ann.node, ts |-> ann.ts, anns |-> <<ann>>, hash |-> None, reset |-> None,
   links |-> [k \in LinkKey |-> None]]

\* new_node for a reset announcement.
NewNode(ann) ==
  [ip |-> ann.node, ts |-> ann.ts, anns |-> <<ann>>, hash |-> None, reset |-> ann,
   links |-> [k \in LinkKey |-> None]]

Stale(ip) == nodes[ip] # None /\ heap[nodes[ip]].ts < now - GlobalTimeout

\* keep_table_clean, under the table's write lock.
KeepTableClean ==
  /\ ~panicked
  /\ \E ip \in Ip : Stale(ip)
  /\ nodes' = [ip \in Ip |-> IF Stale(ip) THEN None ELSE nodes[ip]]
  /\ served' = served \ UNION { Forgotten(heap[nodes[ip]]) : ip \in { x \in Ip : Stale(x) } }
  /\ heap' = Collect(heap, nodes', h)
  /\ UNCHANGED <<now, selfNode, h, arrived, panicked>>

-----------------------------------------------------------------------------
(* handle_announce_impl                                                      *)

\* The packet parses and checks; self_node is read under mut_state's lock.
Receive(p, a) ==
  /\ ~panicked /\ h[p].pc = "idle"
  /\ arrived[a] < MaxDeliveries
  /\ arrived' = [arrived EXCEPT ![a] = @ + 1]
  /\ h' = [h EXCEPT ![p] = [At("lookup") EXCEPT !.ann = a, !.self = selfNode]]
  /\ UNCHANGED <<now, selfNode, nodes, heap, served, panicked>>

\* The packet does not parse or check: self_node is never read, so with a source
\* the handler fails with "no self_node" before it can reply.
ReceiveBad(p) ==
  /\ ~panicked /\ h[p].pc = "idle"
  /\ h' = Fail(p)
  /\ UNCHANGED <<now, selfNode, nodes, heap, served, arrived, panicked>>

\* nodes.by_ip; for gossip also the refusal of the local node's announcements.
Lookup(p) ==
  LET a == h[p].ann
      next == IF p = "service" THEN "check1"
              ELSE IF h[p].self = a.node THEN "hash" ELSE "check2" IN
  /\ ~panicked /\ h[p].pc = "lookup"
  /\ h' = [h EXCEPT ![p].node = nodes[a.node], ![p].pc = next]
  /\ UNCHANGED <<now, selfNode, nodes, heap, served, arrived, panicked>>

\* The node already has a newer announcement.
IsOld(p) == h[p].node # None /\ heap[h[p].node].ts > h[p].ann.ts

WrongSnode(p) == h[p].ann.snode # h[p].self

ClockSkewed(p) == now - h[p].ann.ts > MaxClockSkew \/ h[p].ann.ts - now > MaxClockSkew

\* The refusals that only the service path makes.
Check1(p) ==
  /\ ~panicked /\ h[p].pc = "check1"
  /\ h' = ToPc(p, IF IsOld(p) \/ WrongSnode(p) \/ ClockSkewed(p) THEN "hash" ELSE "check2")
  /\ UNCHANGED <<now, selfNode, nodes, heap, served, arrived, panicked>>

\* Mutant of Check2: old announcements pass.
Check2NoAge(p) ==
  LET a == h[p].ann IN
  /\ ~panicked /\ h[p].pc = "check2"
  /\ h' = IF a.reset THEN ToPc(p, "new_node")
          ELSE IF h[p].node # None THEN ToPc(p, "add_ann") ELSE Return(p)
  /\ UNCHANGED <<now, selfNode, nodes, heap, served, arrived, panicked>>

\* Mutant of Check2: a reset of a node that is known is added like any announcement.
Check2ResetAdds(p) ==
  LET a == h[p].ann IN
  /\ ~panicked /\ h[p].pc = "check2"
  /\ h' = IF IsOld(p) THEN ToPc(p, "hash")
          ELSE IF h[p].node # None THEN ToPc(p, "add_ann")
          ELSE IF a.reset THEN ToPc(p, "new_node") ELSE Return(p)
  /\ UNCHANGED <<now, selfNode, nodes, heap, served, arrived, panicked>>

\* The age check of both paths, and the branch on is_reset; a node that is not
\* known and does not reset is refused (UnknownNode).
Check2(p) ==
  LET a == h[p].ann IN
  /\ ~panicked /\ h[p].pc = "check2"
  /\ h' = IF IsOld(p) THEN ToPc(p, "hash")
          ELSE IF a.reset THEN ToPc(p, "new_node")
          ELSE IF h[p].node # None THEN ToPc(p, "add_ann") ELSE Return(p)
  /\ UNCHANGED <<now, selfNode, nodes, heap, served, arrived, panicked>>

\* version.unwrap() on a reset announcement that carries no version.
PanicNoVersion(p) ==
  /\ ~panicked /\ h[p].pc = "new_node" /\ ~HasVersion(h[p].ann)
  /\ panicked' = TRUE
  /\ UNCHANGED <<now, selfNode, nodes, heap, served, h, arrived>>

\* new_node: the encoding scheme is the announcement's or that of the node now
\* in the table; with neither it fails.
MakeNode(p) ==
  LET a == h[p].ann IN
  /\ ~panicked /\ h[p].pc = "new_node" /\ HasVersion(a)
  /\ h' = IF HasScheme(a) \/ nodes[a.node] # None THEN ToPc(p, "add_node") ELSE Fail(p)
  /\ heap' = Collect(heap, nodes, h')
  /\ UNCHANGED <<now, selfNode, nodes, served, arrived, panicked>>

\* add_node with overwrite, under the table's write lock.
AddNode(p) ==
  LET a == h[p].ann
      old == nodes[a.node] IN
  /\ ~panicked /\ h[p].pc = "add_node"
  /\ \E o \in Obj : heap[o] = None
  /\ LET o == CHOOSE x \in Obj : heap[x] = None IN
     /\ nodes' = [nodes EXCEPT ![a.node] = o]
     /\ h' = [h EXCEPT ![p].node = o, ![p].pc = "links", ![p].next = 1]
     /\ heap' = Collect([heap EXCEPT ![o] = NewNode(a)], nodes', h')
  /\ served' = IF old = None THEN served ELSE served \ Forgotten(heap[old])
  /\ UNCHANGED <<now, selfNode, arrived, panicked>>

\* Mutant of Withdrawn: the reset message is dropped like any other.
WithdrawnWithReset(node, a) == DroppedByAdd(node.anns, a)

\* The hashes add_announcement deletes from the announcement list.
Withdrawn(node, a) == DroppedByAdd(node.anns, a) \ {node.reset}

\* add_announcement, under the node's write lock.
AddAnnouncement(p) ==
  LET a == h[p].ann
      o == h[p].node
      node == heap[o] IN
  /\ ~panicked /\ h[p].pc = "add_ann"
  /\ heap' = [heap EXCEPT ![o].anns = AfterAdd(node.anns, a), ![o].ts = a.ts]
  /\ served' = served \ Withdrawn(node, a)
  /\ h' = [h EXCEPT ![p].pc = "links", ![p].next = 1]
  /\ UNCHANGED <<now, selfNode, nodes, arrived, panicked>>

\* Mutant of LinkAfter: a withdrawal leaves the link.
LinkAfterKept(old, e, a) ==
  IF e.label = 0 THEN old
  ELSE [label |-> e.label, form |-> e.form, recent |-> a.ts, slots |-> {}]

\* What a peer entity makes of the link it names: a withdrawal removes it, the same
\* label and form keep its link state, anything else wipes it.
LinkAfter(old, e, a) ==
  IF e.label = 0 THEN None
  ELSE IF old # None /\ old.label = e.label /\ old.form = e.form THEN old
  ELSE [label |-> e.label, form |-> e.form, recent |-> a.ts, slots |-> {}]

\* One iteration of the loop over the peers, under the links' lock.
UpdateLink(p) ==
  LET a == h[p].ann
      o == h[p].node IN
  /\ ~panicked /\ h[p].pc = "links"
  /\ \E i \in PeerPositions(a) :
       /\ i >= h[p].next
       /\ \A j \in PeerPositions(a) : j >= h[p].next => i <= j
       /\ LET e == a.entities[i]
              k == LinkOf(e) IN
          heap' = [heap EXCEPT ![o].links[k] = LinkAfter(heap[o].links[k], e, a)]
       /\ h' = [h EXCEPT ![p].next = i + 1]
  /\ UNCHANGED <<now, selfNode, nodes, served, arrived, panicked>>

\* Timeslots a link keeps from before, and those of the reports on it.
SlotsAfter(link, reports, ts) ==
  { s \in link.slots : s >= ts - AgreedTimeout }
    \cup UNION { (ts - e.filled + 1)..ts : e \in reports }

\* link_state_update1.  Links are found by number alone: where two addresses share
\* one, the iteration order of a HashMap decides which of them is updated.
LinkStateUpdate(p) ==
  LET a == h[p].ann
      o == h[p].node
      links == heap[o].links IN
  /\ ~panicked /\ h[p].pc = "links"
  /\ \A i \in PeerPositions(a) : i < h[p].next
  /\ \E by_num \in [PeerNum -> Ip] :
       /\ \A k \in LinkKey : links[k] # None => links[<<by_num[k[2]], k[2]>>] # None
       /\ heap' = [heap EXCEPT ![o].links = [k \in LinkKey |->
            LET reports == { e \in LinkStates(a) : e.num = k[2] } IN
            IF links[k] # None /\ by_num[k[2]] = k[1] /\ reports # {}
            THEN [links[k] EXCEPT !.recent = a.ts, !.slots = SlotsAfter(links[k], reports, a.ts)]
            ELSE links[k]]]
  /\ h' = ToPc(p, "has_ann")
  /\ UNCHANGED <<now, selfNode, nodes, served, arrived, panicked>>

\* Mutant of HasAnn: only reset messages are published.
HasAnnResetOnly(p) ==
  LET a == h[p].ann
      node == heap[h[p].node] IN
  /\ ~panicked /\ h[p].pc = "has_ann"
  /\ h' = ToPc(p, IF a = node.reset THEN "publish" ELSE "hash")
  /\ UNCHANGED <<now, selfNode, nodes, heap, served, arrived, panicked>>

\* has_ann: is the announcement still part of the node's state?
HasAnn(p) ==
  LET a == h[p].ann
      node == heap[h[p].node] IN
  /\ ~panicked /\ h[p].pc = "has_ann"
  /\ h' = ToPc(p, IF a \in Forgotten(node) THEN "publish" ELSE "hash")
  /\ UNCHANGED <<now, selfNode, nodes, heap, served, arrived, panicked>>

\* Peers::add_ann up to its first await.
Publish(p) ==
  LET a == h[p].ann IN
  /\ ~panicked /\ h[p].pc = "publish"
  /\ served' = served \cup {a}
  /\ h' = ToPc(p, IF a \in served THEN "hash" ELSE "inv")
  /\ UNCHANGED <<now, selfNode, nodes, heap, arrived, panicked>>

\* The INV messages to the peers have been queued.
InvSent(p) ==
  /\ ~panicked /\ h[p].pc = "inv"
  /\ h' = ToPc(p, "hash")
  /\ UNCHANGED <<now, selfNode, nodes, heap, served, arrived, panicked>>

\* Mutant of Hash: a handler that returns without computing the hash.
HashSkipped(p) ==
  /\ ~panicked /\ h[p].pc = "hash"
  /\ h' = Return(p)
  /\ heap' = Collect(heap, nodes, h')
  /\ UNCHANGED <<now, selfNode, nodes, served, arrived, panicked>>

\* node_announcement_hash on every way out of the handler, and the return.
Hash(p) ==
  LET o == h[p].node IN
  /\ ~panicked /\ h[p].pc = "hash"
  /\ h' = Return(p)
  /\ heap' = Collect(IF o = None THEN heap
                     ELSE [heap EXCEPT ![o].hash = StateHash(heap[o].anns)], nodes, h')
  /\ UNCHANGED <<now, selfNode, nodes, served, arrived, panicked>>

-----------------------------------------------------------------------------
(* The service task                                                          *)

\* do_service connects to the local node and learns its address.
Connect(p) ==
  /\ ~panicked /\ p = "service" /\ h[p].pc = "off"
  /\ selfNode' = SelfIp
  /\ h' = [h EXCEPT ![p] = At("idle")]
  /\ UNCHANGED <<now, nodes, heap, served, arrived, panicked>>

\* check_connection_alive fails: select! drops the handler at the await it is at,
\* either waiting for a message or queueing INV messages.
Disconnect(p) ==
  /\ ~panicked /\ p = "service" /\ h[p].pc \in {"idle", "inv"}
  /\ h' = [h EXCEPT ![p] = At("off")]
  /\ heap' = Collect(heap, nodes, h')
  /\ UNCHANGED <<now, selfNode, nodes, served, arrived, panicked>>

Tick ==
  /\ ~panicked /\ now < MaxNow
  /\ now' = now + 1
  /\ UNCHANGED <<selfNode, nodes, heap, served, h, arrived, panicked>>

Next ==
  \/ Tick
  \/ KeepTableClean
  \/ \E p \in Handlers :
       \/ \E a \in Ann : Receive(p, a)
       \/ ReceiveBad(p)
       \/ Lookup(p) \/ Check1(p) \/ Check2(p)
       \/ PanicNoVersion(p) \/ MakeNode(p) \/ AddNode(p) \/ AddAnnouncement(p)
       \/ UpdateLink(p) \/ LinkStateUpdate(p)
       \/ HasAnn(p) \/ Publish(p) \/ InvSent(p) \/ Hash(p)
       \/ Connect(p) \/ Disconnect(p)

Spec == Init /\ [][Next]_vars

-----------------------------------------------------------------------------
(* What the handlers, the table and the nodes are like in every state: the   *)
(* parts of the inductive invariant the proofs rest on.                      *)

\* A handler has an announcement while it is busy, and a node of its origin from the
\* step that needs one; only a reset announcement makes a node.
HandlerOK(p) ==
  /\ h[p].pc \in {"off", "idle"} => h[p].node = None
  /\ h[p].pc \notin {"off", "idle"} => h[p].ann \in Ann
  /\ h[p].pc \in {"add_ann", "links", "has_ann", "publish", "inv"} => h[p].node # None
  /\ h[p].pc = "add_ann" => ~h[p].ann.reset
  /\ h[p].pc \in {"new_node", "add_node"} => h[p].ann.reset
  /\ h[p].node # None => heap[h[p].node] # None /\ heap[h[p].node].ip = h[p].ann.node

HandlersOK == \A p \in Handlers : HandlerOK(p)

\* The table leads from an address to a node with that address.
TableOK ==
  \A ip \in Ip : nodes[ip] # None => heap[nodes[ip]] # None /\ heap[nodes[ip]].ip = ip

\* A node holds announcements of its own origin, and no reset but the one it is made of.
NodesOK ==
  \A o \in Obj : heap[o] # None =>
    /\ heap[o].reset.reset /\ heap[o].reset.node = heap[o].ip
    /\ \A i \in DOMAIN heap[o].anns :
         LET a == heap[o].anns[i] IN a.node = heap[o].ip /\ (a.reset => a = heap[o].reset)

IndInv == TypeOK /\ HandlersOK /\ TableOK /\ NodesOK

-----------------------------------------------------------------------------
(* Properties                                                                *)

\* The handler that put an announcement into a node's state has yet to publish it.
Publishing(o, a) ==
  \E p \in Handlers : /\ h[p].node = o /\ h[p].ann = a
                      /\ h[p].pc \in {"links", "has_ann", "publish"}

\* The reset message of every node of the table, which carries the version and the
\* encoding scheme downstream supernodes need, is served to them or about to be,
\* whatever other handlers and the cleaner do and however often it arrives.
ResetServed ==
  \A ip \in Ip : nodes[ip] # None =>
    LET o == nodes[ip] IN heap[o].reset \in served \/ Publishing(o, heap[o].reset)

\* Every announcement a node's state hash covers is served or about to be, as long
\* as no announcement arrives twice.
StateServed ==
  (\A a \in Ann : arrived[a] <= 1) => \A ip \in Ip : nodes[ip] # None =>
    \A i \in DOMAIN heap[nodes[ip]].anns :
      LET a == heap[nodes[ip]].anns[i] IN a \in served \/ Publishing(nodes[ip], a)

\* The announcements the nodes of the table stand on.
Live == UNION { Forgotten(heap[nodes[ip]]) : ip \in { x \in Ip : nodes[x] # None } }

\* The step in which an announcement stops being part of the table (superseded,
\* expired, reset or forgotten) leaves no supernode able to fetch it from us.
WithdrawnWhenDead == [][\A a \in Live : a \notin Live' => a \notin served']_vars

\* The hash "pn" tells a node is that of the announcements we hold for it, unless
\* one of them is being handled right now.
StateHashCurrent ==
  \A ip \in Ip : nodes[ip] # None =>
    LET o == nodes[ip] IN
    \/ heap[o].hash = StateHash(heap[o].anns)
    \/ \E p \in Handlers : h[p].node = o /\ h[p].pc \in {"links", "has_ann", "publish", "inv", "hash"}

\* With one handler no step takes a node of the table back in time.
NeverOlder ==
  [][\A ip \in Ip : nodes[ip] # None /\ nodes'[ip] # None =>
       heap'[nodes'[ip]].ts >= heap[nodes[ip]].ts]_vars

\* With one handler a node's announcements are ordered newest first and its
\* timestamp is that of the newest, which the retain loop relies on.
NewestFirst ==
  \A ip \in Ip : nodes[ip] # None =>
    LET node == heap[nodes[ip]] IN
    /\ node.anns # <<>> /\ node.anns[1].ts = node.ts
    /\ Chronological(node.anns)

\* With one handler an entity in force stays in force until a newer entity replaces
\* it or its announcement expires: pruning a node's list loses nothing.
NothingLost ==
  [][\A ip \in Ip : nodes[ip] # None /\ nodes'[ip] = nodes[ip] =>
       LET old == heap[nodes[ip]]
           new == heap'[nodes[ip]] IN
       \A e \in InForce(old.anns) :
         \/ e \in InForce(new.anns)
         \/ \E f \in EntitiesOf(new.anns[1]) : IsReplacement(e, f)
         \/ \A i \in DOMAIN old.anns : e \in EntitiesOf(old.anns[i]) => Expired(old.anns[i], new.anns[1])]_vars

\* The link a peer entity names is as it says: there with its label and form, or gone.
Agrees(links, e) ==
  LET link == links[LinkOf(e)] IN
  IF e.label = 0 THEN link = None
  ELSE link # None /\ link.label = e.label /\ link.form = e.form

\* The links of a node once the handler of its newest announcement has walked the
\* entities of that before position next.
LinksUpTo(node, next) ==
  \A i \in DOMAIN node.anns : \A k \in DOMAIN node.anns[i].entities :
    Standing(node.anns, i, k) /\ (i = 1 => k < next) => Agrees(node.links, node.anns[i].entities[k])

Linked(node) ==
  \A i \in DOMAIN node.anns : \A k \in DOMAIN node.anns[i].entities :
    Standing(node.anns, i, k) => Agrees(node.links, node.anns[i].entities[k])

\* With one handler the links of a node that is not being handled agree with the
\* peer entities that stand: announced links are there, withdrawn ones are not.
LinksFollowState ==
  \A ip \in Ip : nodes[ip] # None =>
    \/ \E p \in Handlers : h[p].node = nodes[ip] /\ h[p].pc = "links"
    \/ Linked(heap[nodes[ip]])

\* With one handler a node is what its announcements say: they are in order, its time is that of
\* the newest, and its links are those in force.  (server.rs: add_announcement, update_links)
NodeFollowsList == NewestFirst /\ LinksFollowState
=============================================================================
