# A verification project for cjdns-route-server

cjdns-route-server is a *supernode* for cjdns networks. Nodes announce their
links to it; it keeps the announcements, offers them to other supernodes and
computes routes from them. Beside the supernode the repository has a nameserver
and its seeder, a copy of the PNS domains kept from a blockchain, a peer tester,
and the libraries they share. This project models the parts whose correctness
depends on order, interleaving, failure or boundaries, checks them with TLC on
small instances and proves central properties with TLAPS for every instance.

## Inventory

| Part | State | Operations | Interacts with |
|---|---|---|---|
| announcement handling (`server.rs`) | `self_node`, locals of each handler | `handle_announce_impl`, `add_announcement`, `link_state_update1` | nodes table, peers, service |
| nodes table (`server/nodes.rs`) | `nodes_by_ip` (RwLock), per node `mut_state` (RwLock) and `inward_links_by_ip` (Mutex) | `by_ip`, `new_node`, `add_node`, `forget_node`, `keep_table_clean` every 30 s | handlers hold `Arc<Node>` across locks |
| announcement list (`peer/ann_list.rs`) | hashes in order, data by hash | `add`, `remove`, `get` | handlers add and delete, peers read |
| peer gossip (`peer.rs`, `peer/*`) | list of peers, per peer a queue of 1024, outstanding requests, time of the last message | HELLO/OLLEH, INV, GET_DATA, DATA, PING/ACK; reconnecting, pinging, dropping | websocket tasks, gossip queue of 256 |
| service (`server/service.rs`) | connection to the local node | connect, sniff, answer `ann`, `gr`, `pn`, ...; reconnect | cancels the handler it runs |
| link state (`server/link.rs`) | per link: samples by timeslot, value, newest slot | report handling | announcements, routing |
| routing (`server/route.rs`, `pathsearch/`) | Dijkstra graph, cache of routes, time of the last build | rebuild every 3 s, `get_route`, label computation | nodes table |
| web server (`server/webserver.rs`) | none | dumps, node pages, path, walk | nodes table, routing |
| snode seeder (`seeder/`) | peers with credentials, results of tests | credentials posted, test results, lists | peer tester, nameserver |
| labels and schemes (`cjdns-core`) | none | splice, unsplice, re-encode, scheme on the wire | routing |
| announcement format (`cjdns-ann`) | none | parse, serialize, hash | handlers |
| admin client (`cjdns-admin`) | slots of requests, streams, cookie | invoke, dispatch, clean up, time out | service, sniffer, peer tester |
| sniffer, headers, checksum (`cjdns-sniff`, `-hdr`, `-ctrl`, `netchecksum`) | none | encode, decode | service |
| bencode, buffers (`cjdns-bencode`, `-bytes`) | chunks of a message | parse, serialize, push, pop | everywhere |
| nameserver (`cjdns-nameserver`) | configuration, the seeder's records | answer a query, refresh | PNS copy, snode seeder |
| PNS domain cache (`cjdns-pns`) | copy of the domains, who loads it | load, follow six kinds of events, query | chain access |
| chain access (`cjdns-eth-rpc`) | servers with marks, providers, streams, recent transactions | `rpc`, `rpc_of_type`, `subscribe` | remote servers |
| peer tester (`cjdns-ptest`) | peers to test, being tested, tested; nodes that test | list, hand out, test, post the results | snode seeder, admin client |
| start-up, keys, crypto, generated contract bindings | keys | | |

What is hard here: two tasks run the announcement handler at the same time
against state under several kinds of locks, with the cleaner between them; a
node object outlives its entry in the table; the service task is cancelled at
any `await`; announcements arrive late, twice and out of order; bounded queues
sit between tasks that wait for one another; every server of the chain tells of
every event, connections are lost under several streams at once, and one task
per kind of event changes one copy; answers race with timeouts and clean-up;
slots, windows, rings, labels and chunks invite off-by-one errors.
`PROJECT.json` lists these as hazards, each at its line.

## Modules

### The supernode's tables

**Announcements** holds the data (an announcement is a record with its entities)
and the pure operators of `server/utils.rs`, `server/hash.rs` and of the retain
loop in `add_announcement`: `IsReplacement`, `Expired`, `Fresh`, `AfterAdd` (the
list that remains) and `DroppedByAdd` (what is withdrawn). sha512 is taken to be
collision free: an announcement stands for its hash, a list for its digest.
**Sublists** has `Pick` and `Among`, what `Vec::retain` and `filter` leave of a
list; PeerGossip uses it too.

**AnnounceHandling** is the core: a state machine with one action per critical
section of `handle_announce_impl`. The handlers are `"gossip"` (announcements
from other supernodes) and `"service"` (from nodes that use this one).

| Action | Code |
|---|---|
| `Receive`, `ReceiveBad` | the packet parses and checks, or does not; `self_node` is read |
| `Lookup` | `nodes.by_ip`; the `Arc<Node>` is kept in `h[p].node` from here on |
| `Check1`, `Check2` | the refusals of the service path; the age check and the branch on `is_reset` |
| `MakeNode`, `PanicNoVersion`, `AddNode` | `new_node` and its failure, `version.unwrap()`, `add_node` with `forget_node` of the old node |
| `AddAnnouncement` | `add_announcement` with the deletions from the announcement list |
| `UpdateLink` | one turn of the loop over the peers |
| `LinkStateUpdate` | `link_state_update1`; where two addresses share a peer number the choice is the iteration order of a `HashMap`, so it is nondeterministic |
| `HasAnn`, `Publish`, `InvSent` | `has_ann`, `Peers::add_ann` up to its first await, and the rest of it |
| `Hash` | `node_announcement_hash` and the return |
| `KeepTableClean` | the cleaner |
| `Connect`, `Disconnect` | `do_service`; `select!` drops a handler that is at an await |

`heap` is the memory behind the Arcs. A cell is freed when neither the table nor
a handler refers to it (`Collect`), so a handler can go on working on a node the
table no longer holds, as in the code. `served` is the announcement list.

**RetainLoop** runs the retain loop as the code does, one announcement after the
other with the growing list of announced entities, and compares the result with
`AfterAdd`/`DroppedByAdd` and with an independent reading: for every slot of a
node's state the last value wins.

**LinkState** follows samples from the node that takes them through the parser's
ring and the walk of `link_state_update1` back to their timeslots. The sampling
node is external: it samples once a slot, reports in the slot of its newest
sample and names the ring index of the oldest one in `starting_point`.

**Locks** has the same handlers from the other side: for each of the seven
sections of code that hold locks (announcing, cleaning, the `gr` query,
rebuilding routes, the dump, a node's page, the walk) the order in which it takes
and gives back the locks of the server, the table, the slots, the nodes and the
links. A section is computed from the nodes it meets when it starts. parking_lot's
`RwLock` is fair to writers: a read waits behind a waiting writer, which is what
makes a second read by one thread dangerous.

### Routes

**PathSearch** is `dijkstra.rs` and `frontier.rs`: the frontier as the list and
the index of positions it is, both ways of ending (a path, or all costs), and the
walk back over the predecessors. It implements **ShortestPath**, which answers in
one step with any cheapest path: `FindsShortest` is that refinement, under the
mapping in `PathSearch`, checked and proved. The loops over `previous` have no bound
of their own; `Chain` walks as many turns as there are nodes, and `SearchConsistent`
says that this is enough.

**Labels**, **SchemeCodec** and **RouteLabels** are `splice.rs`, `encoding.rs`
and `compute_routing_label`: joining, splitting and re-encoding labels bit for
bit, schemes as numbers on the wire, and the label of a path of nodes, computed
in the new way and the old one (`build_label`). The meaning they are checked
against is `Follows`: the switches of the path, each of which takes a director off.

**Routing** puts a query in the middle of everything else: rebuilds that list
the addresses and then look each one up, announcements and the cleaner that
change the table between any two steps, the cache of routes and the panic of a
rebuild. A route is a label or the reason why there is none.

### Programs around the supernode

**DomainCache** is the copy of the PNS domains: the tasks that follow the six
kinds of events, the first load and reloads after a failure, callers that wait
for a load and the one that does it. **DomainNames** is what the nameserver
answers with, in which order it looks, and **DnsSeed** the reply of the seeder,
with its variable length numbers, in a small base for bytes.

**RpcCalls** and **EventStreams** are the chain access: the choice among servers
by the marks other calls leave on them, with its retries; and the streams of
events of several servers, their shared providers, lost connections and the
memory of recent transactions by which duplicates are dropped.

**Seeding** is the snode's seeder and its clients: posts of credentials, answers,
results of tests, lists for the nameserver and its copy of a TXT record. The
seeder's lock is taken for each credential of a post, so each is a step
(`HandleCred`), and posts of several nodes go on side by side (`InFlight`); a post
that comes to another node's credential is refused, with those before it
recorded. The four passes over the peers are stated by what they select (`Pass`,
`Selected`).
**Tester** is the peer tester: one loop, several agents with their attempts and
timeouts, and the connections they make and remove on a node.

**AdminCalls** is a connection to a node's admin interface: calls that register
a slot and then send, authentication by cookie, the dispatch task with its
clean-up period, streams with a bound, timeouts, and a wire that delivers late,
more than once or not at all.

### Wire formats

**Bencode** (`standard.rs`), **Frames** (all headers, control messages and the
checksum), **Packets** (the sniffer), **GossipCodec** (messages between
supernodes as msgpack values) are operators that write and read, stated on
sequences of bytes. **MessageBuffer** is the buffer that is written back to front
in chunks; it implements **ByteStack**, a stack of bytes (`BufferIsStack`).

### Between supernodes

**PeerGossip** is the protocol between supernodes: `connect_to`, `incoming()` and
`outgoing()`, the `select!` loop of `run_websocket`, `handle_message`, `add_ann`
and the ping task. A connection is used once and has two ends, each with its
bounded queue and a task whose `stage` is the `await` it is at: `write` (the
transport is full), `reply` (its own queue is full), `announce` (the queue of
announcements is full). `wire` is the transport; it fills and breaks. Handling an
announcement is reduced to what it does to the announcement list: add the hash
and withdraw what it supersedes (`Supersedes`). Time is counted in ping cycles.
Request ids are taken from the counter; those of PING are left out, as nothing
looks at them. That a task's queue closes and that its peer is delisted is one
step: in between, sends to it fail and are ignored, as after it. `offered` and
`cut` are history variables. `Strays` lets a peer of another make speak out of
turn once, `Hung` lets an end stop.

### Modules for the runs

`MCAnnounceHandling`, `MCPeerGossip` and `MCSeeding` give the constants of one
module. `MCAlgorithms` (with `MCCodecs`) and `MCServices` check several parts in
one run: the initial states choose a `part`, which then moves alone in its own or
in shared variables while the rest keep still. No part sees another, so the run
is the union of their state spaces. MCAlgorithms extends LinkState, RetainLoop and
PathSearch, `Services` extends Locks; the other parts are instances. A part without steps has its inputs
as initial states, and its properties are evaluated on each of them.

`Services` is that composition for any values: what each part needs is a record of
constants (`Domain`, `Caller`, `Streamer`, `Seeded`, `Shared`, `Tested`, `Line`,
`Pair`, `Message`, `Administered`), and the properties of the run `services` are
its definitions. `MCServices` gives the values. So the theorems speak of the
same specification and the same properties that the run checks.

## Runs

| Run | Instance | Result |
|---|---|---|
| `gossip` | gossip handler, five announcements of a node (two resets, a withdrawal, a peer that moves, an empty one), each up to twice, clock to 4 | passes: `NodeFollowsList`, `StateHashCurrent`, `NeverOlder`, `NothingLost` |
| `both` | both handlers, reconnects, announcements of several nodes that arrive once or twice, a reset without version, one for another supernode | passes: `IndInv`, `StateServed`, `ResetServed`, `WithdrawnWhenDead` |
| `cancelled` | both handlers | violates `StateHashCurrent`: a connection that fails while INVs are queued leaves a stale hash |
| `algorithms` | the parts that compute, see below | passes: the twelve properties below |
| `linkstate_loss` | reports of at most four samples | violates `NoSampleLost`: the oldest sample of each report is not read |
| `linkstate_decay` | as above | violates `ValueDecays`: the test for decay is the wrong way round |
| `offers` | two supernodes, a connection made, broken and made again, queues of two, transport of one, one announcement; a peer may greet, offer or answer once out of turn | passes: `TypeOK`, `NoneMissed`, `AnswersExpected` |
| `pings` | a client that may hang, the server's ping task | passes: `SilentDropped` |
| `delivery` | two announcements, queues that hold all messages | passes: `Delivered`, `Completes` |
| `blocked` | three announcements, queue of two | violates `Redials`: the client waits for room in the queue it empties itself |
| `services` | the programs around the tables and the locks, see below | passes: the fourteen properties below |
| `private_shared` | the seeder, a node that makes its peer id private | violates `PrivateNotShared`: the node is handed out on |

`NodeFollowsList` is that a node's list is ordered and its links are what the
list says (`NewestFirst`, `LinksFollowState`). What an entity says stands
(`Standing`) until a newer announcement uses its number. An announcement may name
one link twice, and then retain keeps the first entity while the loop over the
peers ends with the last one, so within an announcement the last one stands; one
of the run's announcements does so. `NeverOlder` and `NodeFollowsList`
do not hold with two handlers: the age check, `add_announcement` and the update
of the links are different critical sections. That is a fact about the code,
stated as the assumption of the theorems `NoOlder`, `FollowsList` and
`PruningLosesNothing`. `StateServed` is stated for
announcements that did not arrive twice: two copies in one list lead to the
withdrawal of both when one is pruned.

**`algorithms`** shows:

| Property | Says | Instance |
|---|---|---|
| `SamplesInPlace`, `AllButOldest` | samples keep the slot they were taken in, inside the window, and all but the oldest of a report arrive | ring of 4, window of 5, ten slots, reports of one to five samples |
| `LoopKeepsLast` | the retain loop is the core's one-step operator, and keeps the last value of each entity | six announcements, any order of four arrivals |
| `SearchConsistent`, `FindsShortest` | list and index of the frontier agree, the walk back ends at the start, and the answer is cheapest | all graphs of four nodes with three kinds of links, with ties and asymmetric costs; three queries; a link to a node nobody reported |
| `LabelsKeepWay` | splicing joins, unsplicing undoes it, re-encoding keeps the hop (but for director 7 of scheme 358), schemes come back from the wire | labels of one to three hops in five schemes, some too long together |
| `LabelsLeadAlong` | the label of a path leads along it, and the routing's loop agrees with `build_label` | four nodes in a row, one scheme or two, every form |
| `DnsHolds` | answers come from the domain asked for, an alias is alone, all TLDs answer alike, valid names are runs of what the code allows | every query over a small configuration |
| `RepliesReturn`, `FramesReturn`, `BencodeExact` | what is written is what is read; an object has one encoding | all forms of headers and messages with telling values; objects to depth two |
| `ChecksumHolds` | damage in one place is noticed, and the checksum is RFC 1071's | buffers of up to five telling bytes |

**`services`** shows:

| Property | Says | Instance |
|---|---|---|
| `StatesTyped` | the types of all parts | |
| `ContractFollowed` | the copy is the contract after events in order; the answered records are the domain's, but for a takeover's, in any order | three transactions on two domains, one failure, one query |
| `LoaderAlive` | who waits for a load waits for one that goes on | as above |
| `ShortageIsRace` | a call fails to find a server only when another marked one under its eyes | two servers, two calls, one retry |
| `EventsOnce`, `OneProviderPerLoss` | an event is handed on once and all of a transaction by one server; streams that lose one connection make one | two servers, two filters each, memory of one, two losses |
| `SeedsFit` | nodes are told of others, public, of their families, all there is room for; TXT records hold only peers a test reached lately | nodes: two posts at once, of one credential or two, among three nodes and five entries; records: one post at a time, tests and the nameserver's questions, clock to 3 |
| `SentApart`, `ConnectionsUsed` | one peer is in two agents' hands only a window apart; a connection belongs to a test that goes on, or its agent's last test timed out | two peers, two agents, two attempts |
| `RoutesHold` | each hop of a route was a link at some time since its graph began to be built; one to a peer is the newest link | a route of two hops and one to a peer with several links; two changes of the tables, queries one after the other |
| `OnlyKnownDeadlocks` | threads wait on one another for good in three ways only | a handler, the cleaner and web requests with all seven sections, two nodes, one of them its own peer |
| `AnswerHasSlot`, `NoGaps` | a request on the wire has a slot or its answer; what a subscriber gets of its stream has no gap | two calls, one of them with a cookie, one with a stream of one |
| `BufferIsStack` | the chunks are a stack of bytes | chunks of two, up to five bytes |

**Bounds.** In AnnounceHandling a timeout of 2 and a clock to 4 let nodes expire,
announcements expire in a list, and both happen while a handler holds the node.
Two announcements with different labels for one peer, one withdrawal, one peer
number shared by two addresses and one reset that borrows its encoding scheme
cover the branches of the handler. Five cells are more than two handlers and two
table entries can hold, so `AddNode` never waits for memory. In `both` the state
constraint `OnceOrTwice` admits any three of five announcements once each, all four
of the node `n`, or three up to twice. A ring
of four reaches every relation of starting point, length and wrap-around,
including a full ring and a report longer than it.

Labels have 26 bits for 64: enough for three hops of the longest form and too few
for some pairs, which is where the code refuses. Four nodes are the least with a
path of two inner hops; link costs of 1 and 3 against 1 make a detour cheaper
than a direct link and make ties. A chunk of two and five bytes have every
boundary of a chunk inside a write, at its end and inside a read. The base of a
byte in DnsSeed is 16, so lengths reach the second and third form of a variable
length number. Two streams of each of two servers are the least in which a
connection is shared and a duplicate can come from elsewhere; a memory of one
transaction lets entries be forgotten while another server is still to tell.
In Seeding a reply of two peers for six is filled by posts of two credentials and
left short by others, and is cut to its length when it is too long.

In PeerGossip a queue of two against three hashes in INVs of at most two stands
for 1024 against the nine INVs of 128 that take a client over its queue; the
other tasks' use of that queue is nil in that run, so the wait is the client's
own. `delivery` and `pings` give the queues room for all that can be under way,
because a full one blocks for ever; a transport of one message in `delivery`
would show both ends writing into full buffers and neither reading, which is why
it has four. One announcement is enough for the race between greeting and adding;
the two of `delivery`, the second superseding the first, have one withdrawn
between offer and request, which is answered with empty data (`peer.rs:259`).

`CHECK_DEADLOCK FALSE` is used where a model reaches its bound, where the process
has ended after a panic, where an algorithm has its answer, and for the locks,
whose deadlocks are the subject of a property of their own.

**Fairness.** Only PeerGossip states liveness. The runtime runs every task that
can go on (weak fairness of each task's steps), `connect_to` always dials again
and the ping task's sleep ends. `select!` polls its branches in random order, so
a branch that is ready again and again is taken: strong fairness of `Recv` and
`Read`. No fairness is assumed of nodes that announce, of connections that fail,
of strays or of hung ends.

## Proofs

All theorems hold for any value of the constants that meets the named
assumptions, which TLC evaluates in the runs of the modules that declare them, or that the
theorem itself states.

`SublistProofs`, for the others: picking positions out of a list neither invents nor
loses elements (`PickElements`), and keeps their order (`PickOrder`). Induction over
the naturals is stated of a set of numbers (`Induction`), as the library's theorems,
which take an operator, cannot be used; with it, a function defined by its value
before exists (`Iterates`).

`AnnounceHandlingProofs`, for any sets of announcements, addresses, handlers and
cells and any bounds:

* `IndInvariant`: `Spec => []IndInv`. `IndInv` adds to the types that a handler's
  node is live and of its announcement's origin, that the table leads to live
  nodes of the right address, and that a node's list holds announcements of its
  own origin and no reset but the one it was made of. The last part is what makes
  the rest work: a stale node's list cannot name the reset message of its
  successor. `TypeCorrect` follows.
* `ResetAvailable`: `Spec => []ResetServed`. Deletions come from `forget_node`,
  which deletes only announcements of the forgotten node's origin, and from
  `add_announcement`, which may run on a stale node but spares that node's own
  reset message and can hold no other.
* `Withdrawal`: `Spec => WithdrawnWhenDead`: `add_announcement` splits the list
  and the new announcement into what it keeps and what it drops (`AddSplits`).
* `HashCurrent`: without the service handler, `Spec => []StateHashCurrent`. The
  run `cancelled` shows that the assumption is needed.
* `NoOlder`: with at most one handler, `Spec => NeverOlder`. It needs that what
  the handler looked up is still the table's node or that node was forgotten
  (`LookupCurrent`).
* `FollowsList`: with at most one handler, `Spec => []NodeFollowsList`. The
  invariant `CellsFollow` is about every node object, in the table or not,
  because a handler may be at work on one the table has lost: its list is in
  order, and its links are those of the list, or a handler in the loop over the
  peers has brought them as far as the entity it has come to (`LinksUpTo`). By
  `LookupCurrent` what is added is not older than the list, so it stands before
  it (`AddChronological`); what pruning drops no longer said anything that the
  kept part and the new announcement do not replace (`AddStanding`). With two
  handlers an older announcement can be added after a newer one, and TLC shows
  the property to fail.
* `PruningLosesNothing`: with at most one handler, `Spec => NothingLost`, from the
  same invariant (`AddKeepsInForce`).
* `StateAvailable`: `Spec => []StateServed`, for any number of handlers. The
  hypothesis that nothing arrives twice is part of the property. The invariant it
  needs is `OnePlace`: an announcement is with one handler that has yet to add it,
  or at one position of one node's list. So what is deleted with a forgotten node
  or a pruned list is not what another node stands on.

`PeerGossipProofs`, for any supernodes, connections, hashes, sizes of the queues
and of INVs, and any strays:

* `TypeCorrect`: `Spec => []TypeOK`, which bounds the queues of the peers and of
  announcements and the transport. It needs that a call of `add_ann` has its one
  hash (`CallsOK`) and that a loop over hashes has one left (`TasksOK`): these
  make what the loops take the head of exist. The three together are `Typed`.
* `OffersAll`: `Spec => []NoneMissed`. A peer is listed only by the greeting of
  its connection, and a connection's ends are taken into use in order
  (`ListingOK`); so the copy of the hashes is made while the peer is listed
  already, and an announcement is in that copy or its `add_ann` copies the list of
  peers later, with the peer in it. `Served` and `Cared` spell out the two sides
  of the implication. The one exception is a call dropped by the service task.
* `AnswersAwaited`: `Spec => []AnswersExpected`. Messages have no identity of
  their own, so the property and the proof speak of the *places* messages are at
  (queue, hands of the task, transport, each with its position). A step that asks
  takes an id that is fresh, because outstanding ids are below the counter
  (`IdsOK`); every other step takes each message after it from a place of its own
  before it (`AnswersMove`), and has one of four shapes: a message goes from place
  to place (`AnswersPass`), a list loses its head (`AnswersShift`), that head
  becomes what the task has in hand (`AnswersTake`), or nothing is added
  (`AnswersStay`).

`AlgorithmProofs`, for any ring, any window at least as long and any clock:
`SamplesRight` (`Spec => []SamplesInPlace`) and `OneSampleShort`
(`Spec => AllButOldest`). Step j of the walk is at the sample j before the newest,
wherever the ring starts (`WalkMeets`, from the three cases of `% Slots` that
occur); so a report records exactly its samples but the oldest, each at its slot
(`WalkRecords`), and the record stays in the window. The theorem is also the
general form of the finding below: the one sample lost is lost in every report.

The same module proves of the retain loop, for any set of announcements and any
order in which they arrive, repeats included, `RetainKeepsLast`
(`RetainSpec => []LoopKeepsLast`). It is what allows the model of the handler, and
all that is proved of it, to take `AfterAdd` and `DroppedByAdd` in one step. The
loop compares an entity with those announced before, the operators with all that
came before; the two agree because of the invariant (`Known`) that the announced
entities are the first of their kind among those visited, and every visited entity
that is not ephemeral is replaced by one of them. The rest of the invariant
(`Over`) is that the list so far is the kept part of what has been visited, and the
dropped ones the rest of it. For the last value, an entity that is first in the
kept list was first in the whole, as whatever came before it has a first of its own
kind, whose announcement is kept and also before it (`KeptInForce`).

For any finite set of nodes, any graphs whose links have no negative cost
(`SearchAssumption`, which `add_node` asserts) and any pairs of ends,
`AlgorithmProofs` also shows that the search is right: `SearchStaysConsistent`
(`SearchSpec => []SearchConsistent`) and `ShortestIsFound`
(`SearchSpec => FindsShortest`), the refinement of ShortestPath. Neither of the two
is inductive; `SearchInv` is, and has three parts.

* `FrontierOK`: the list is strictly in order and the index is its inverse. An
  insertion renumbers all behind it, and a decrease is a removal and an insertion,
  so each keeps it (`PushKeeps`, `RemoveKeeps`, `DecreaseKeeps`); the last entry is
  the cheapest (`PopKeeps`).
* `Back`: everything explored has a height, at which it was explored, and its
  predecessor has a lesser one. Hence the walk over the predecessors meets nothing
  twice and ends at the start (`ChainEnds`).
* `Reach`, while the search goes on: there is a label on each node, the cost of the
  best way to it yet, which is what it is queued for and what its predecessor's is
  plus the link (`Labels`); nothing explored is queued (`Apart`) or costs more
  than what is (`Outwards`); and a link of an explored node leads to something
  queued or explored for no more, unless it is one the loop has yet to visit
  (`Visiting`, `Closed`).

When no link waits to be visited, any way from the start has got to explored nodes
for no more than it costs, or past a queued node that costs no more
(`NothingIsCheaper`, by induction along the way). So when the goal is taken from the
frontier nothing else is cheaper, and when the frontier is empty what was not
explored has no way. The chain of predecessors is a way that costs the label of its
end (`ChainIsWay`). With costs that may be negative `Outwards` would be lost, which
is where the assumption is needed.

`ServicesProofs` has two things. The first is the proof about the locks,
`KnownDeadlocks`: for any threads, any share of the seven sections
among them and any nodes and links, `Spec => []OnlyKnownDeadlocks`. The locks
have an order (server, then `inward_links_by_ip`, then table and slots, then a
node's `mut_state`, then announcements and a link's state), and every section
but the three named ones takes them in that order; the invariant says so of the
rest of each section and of what the thread holds. Routing takes a second
lock of the same kind, but behind the server's lock, which one thread has at a
time. Of the threads that wait, the one that waits for the highest lock waits for
a holder that would have to wait for one as high, which is one of the known ways.

The second carries the theorems of the parts over to the composition `SSpec`, so
that the twelve properties named below and `OnlyKnownDeadlocks` are theorems of
the specification that the run `services` checks. The proof modules of the parts
are instances (`Chain`, `Nodes`, `Lined` and `Paired`) with what Services gives
them. A behaviour of the composition keeps its part (`PartStays`); the actions of a
part and of the instance the theorem is about are the same formulas (the lemmas
`DomainsSame` to `RecordsSame`); so while it is a part's turn the composition behaves
as that part's specification (`DomainsBehave` to `RecordsBehave`), and otherwise the
property, which is stated for its part, holds of itself.

`NodeProofs` is about what uses a cjdns node: the calls of its admin interface, and
as instances the agents of the peer tester and the buffers packets are written into. `SlotBeforeSend`: `Spec => []AnswerHasSlot`, with no
assumption. A request is handed to the queue after its slot was announced to the
dispatch task (`SentIsReady`), what is announced has its slot until it is
answered or its caller is gone (`ReadyHasSlot`), and each call's transaction id is
its own (`OwnId`).

`StreamsUnbroken`: `Spec => []NoGaps`, with no assumption either.
The difficulty is that a stream whose queue was full is given up while its later
messages are still on the wire: were it opened again, they would be handed over
behind a gap. `NoGaps` is inductive with three more facts:

* `OpensOnce`: the request of a stream is still to be made, or is in the task's
  queue, at one place, or has a slot, or none of these for good; in the first three
  the stream has no sender and its subscriber nothing. So the second answer to a
  request opens nothing, which is what makes a stream given up stay so.
* `InOrder`: the messages of a stream on the wire are the last ones sent, in order.
* `Unbroken`: while a stream has a sender and its subscriber something, the next
  message of it on the wire is the next number, or there is none and the next
  number has not been sent.

Each step is one of few kinds: messages stay as they are (`SameStreams`), one goes
on the wire (`AnswerOn`, `StreamOn`), the first leaves it for nobody (`HeadDropped`)
or for its subscriber (`HeadHanded`), the subscriber takes one (`Taken`).

`GivenApart`: `[]SentApart`, for any list of peers, agents and
times. A peer handed out is in `testing` with its time until the window is over,
so it is handed out again at least a window later. `ConnectionsFreed`:
`[]ConnectionsUsed`, inductive with the types: begin and finish free what the
agent holds, and a test that is given up leaves its connection but says so in `res`.

`MessageIsStack`: the buffer `Buffer` implements the stack of bytes, `Spec => Refines`,
for any size of chunks but zero, anything written and any lengths read. Its loops
are recursive functions, and what they compute is shown by induction on the number
of turns (`Induction`, from the least element of a set of naturals; `Iterates` says
that such a function exists). A turn of writing (`TurnKeeps`) or reading (`PopKeeps`)
moves bytes between the rest and the chunks and changes nothing of the two put
together, and comes nearer to its end; the chunks stay as they may be, no
empty one among them and only the last with room (`FitChunks`), which is why a turn
of writing always finds room and why a spare chunk is never taken while one has.

`RoutingProofs` is about what nodes are answered with. The routes, for any
addresses, peerings, labels, requests and bounds, and both ways to find a label: the
hypotheses (`Parameters`) say only that peers and what is asked for are addresses,
that no request is called as nobody is, and that there is a first generation of
nodes.

`RoutesWereTrue`: `Spec => []RouteWasTrue`. The history `seen` has every link that
was some node's first for a peer since the rebuild began, and once there is a graph
or somebody builds one it has every first link of the table (`Covered`). Whoever
works on a route holds the server's lock (`Holders`), so that no rebuild starts the
history anew under it. That is not enough, since the walk keeps the node of the last
hop while it looks up the next one, and that node may be gone from the table by
then: `WasThere` says of a node's links that they were seen, and stays true of
one that is replaced, as nothing is announced to it any more. So each hop, taken from
either end (`HopTrue`), is over a link that was there, and a rebuild that panics
leaves no route (`AllTrue`, `CacheTrue`).

`PeersGetTheirLink`: `Spec => []DirectToPeer`. Links of one pair differ in their
numbers and in when they were made (`LinksApart`, inductive because an
announcement replaces at most the one with its number, `AnnouncedList`), so
the last of the newest is the newest link (`NewestIsDirect`), and what both
announced is confirmed (`DirectIsConfirmed`). `Promise` carries this through a
request for as long as nothing changes.

The seeder, an instance (`Seeder`), for any nodes, public ids, posts, posts at once,
results of tests, sets of unfit nodes and bounds, and any sizes of replies but zero
(`Granted`). `SeedsRight` proves the four parts of `SeedsFit`, that is `AnswersFit`,
`AnswersFull`, `FirstIdDecides` and `SeedsTested`. The argument:

* No two entries have the same credentials, an entry's credentials are of its own
  address, and it is private when the id it first came with is not public (`Kept`).
  Posts and tests leave all of that, and the order of the entries, as they are
  (`Grown`), so what is known of a peer stays true while others post.
* A pass adds peers that fit and none twice (`Adds`), and while there is room all
  that fit (`Enough`). The last of the four considers every entry, so that what is
  selected for a credential is all there is or `Respond` more (`SelectedAdds`).
* For a post in progress, `Holds` says of what is selected so far: none twice, none
  unfit, each of a posted family and once public, and all wanted ones among the
  entries there were when the post began, or enough for a reply. It is kept by the
  steps of the post itself and, by `Grown`, by everybody else's.
* Removing random ones leaves a reply that is full (`TrimmedFits`).
* What the nameserver was answered, and keeps, are entries that were tested less
  than the cutoff before it asked (`Listed`).

`ChainProofs` has the streams of events, the choice of servers and the copy of the
domains, the last two as instances over the variables of the first. `EachOnce` (`[]EventsOnce`, for a natural `Memory`): each
remembered transaction has one entry, which names the server whose events are
handed on; every event handled agrees with that entry, or its transaction was
handed on longer ago than the memory reaches (`EventInv`). `OneEach` (`[]OneProviderPerLoss`, for a natural
`MaxDrops`): providers are numbered, all but the newest have lost their
connection, and a stream that asks for one newer than its own knows that its own
has (`Numbered`).

`AloneFinds`: `[]ShortageIsRace`, for any finite, non-empty list
of servers. While nobody marked a server since a call counted them, the number it
counted is the number of candidates it goes through.

`NobodyForgotten`: `[]LoaderAlive`, for any domains, callers
and events. Waiting callers imply a loader, and each of its ways out, failure
included, empties the list of those who wait.

`ContractKept`: the two halves of `ContractFollowed` (`InStep` and
`RecordsFollow`), for any domains, callers and transactions, provided that no kind
of event is called as the main task or as a query. The argument:

* What the contract has been stays `Sound` (`PastInv`): a domain's count of
  subdomains is the number of domains that name it as their parent, and is below
  the mark that says "this is a subdomain". That is why the copy's count, which is
  kept in eight bits, never wraps, and why a subdomain's owner is always there when
  the subdomain is destroyed (`RegisterSound`, `SubdomainSound`, `DestroySound`,
  `AfterSound`).
* Each event `Fits` the state of the contract its transaction was made in
  (`Events`, `TxFits`), and the transactions made are in the order of the ids given
  (`NewId`, `Ids`).
* An event applied to a copy of the contract as it was before makes a copy of the
  contract as it was after (`AppliedCopies`). As long as each event is applied after
  the one before (`CopyInv`), the copy is the contract as of the last one applied.
* Out of order, domains of the copy still carry the records they were last given
  (`AppliedRecords`); only a takeover leaves the old ones, which is what
  `RecordsFollow` excepts.

A task's events are its own until it has applied them (`TasksInv`), whoever else
moves meanwhile (`TasksStay`, `TaskMoves`).

Only model-checked: everything in the labels and
the wire formats; `SilentDropped`, `Delivered` and `Completes` of PeerGossip;
`StatesTyped`.
Liveness is out of the prover's reach. Bencode, DnsSeed and SchemeCodec use
RECURSIVE operators and Labels the bitwise ones, so nothing is proved in them.

## Findings

* `service.rs:56`: the handler dropped by `select!` leaves a node's state hash
  stale (run `cancelled`).
* `server.rs:504`: the oldest sample of each report is lost, where the model's
  comment says none is (`linkstate_loss`).
* `server.rs:484`: a link's value never decays as time passes (`linkstate_decay`).
* `peer.rs:278`: a client waits for room in the queue only it empties (`blocked`).
* `seeder/mod.rs:93`: a peer made private after its first post is still handed
  out (`private_shared`).

Other behaviour the models contain without a run of its own, each excepted by
name in the property it would break: the three deadlocks of `OnlyKnownDeadlocks`
(`nodes.rs:96`, `route.rs:115`, `webserver.rs:281`); the panic of a rebuild at
`route.rs:107`; the `unwrap` at `ethrpc.rs:210`; director 7 in `re_encode`;
routes between nodes of different schemes (`route.rs:207`); a takeover that
leaves the old records decoded (`cjdns-pns`); names compared as text when the
nameserver looks for its own.

## Not modelled

In the supernode: mtu, flags and the floating point value of links; the reply
error names (they change no state); the byte level of announcements; signatures;
`fn`, `pn` and `pr` queries, which only read and format; the JSON of the web
server; start-up. Times are counted from an epoch at least `AGREED_TIMEOUT` in
the past, so the unsigned subtraction in `link_state_update1` does not wrap.

Around it: pre-registrations of domains and the calls that only ask the contract;
`wait_txn`; what a peer test does between its connection and its result, and its
status page; configuration, function list and transports of the admin client;
the counting of servers in `rpc_of_type` is one step. In the libraries: the text
form of labels, keys and addresses, the accessors of bencode objects and their
JSON, the fixed width readers, cryptography, and the generated bindings of the
contracts.

## Plan

1. Model: pre-registrations against the domain cache, `wait_txn` against the
   event streams, the byte level of announcements.
2. Composition: the seeder, the tester and the admin client in one run, whose
   shared state (the node's connections) is now in two models.
