------------------------------ MODULE Services ------------------------------
(***************************************************************************)
(* The services around the supernode's tables: the copy of the PNS domains *)
(* and the calls and streams that feed it, the seeder and the peer tester, *)
(* the web server's routes, the locks of the tables, message buffers and   *)
(* the calls of a node's admin interface.  They are side by side: "part"   *)
(* says which of them a behaviour is about, and all but the locks, which   *)
(* have their own, use the same variables, as many as they need.           *)
(***************************************************************************)
EXTENDS Locks

\* Of each part, the values of its module's constants, by name.
CONSTANTS Domain, Caller, Streamer, Seeded, Shared, Tested, Line, Pair, Message, Administered

VARIABLES part, v1, v2, v3, v4, v5, v6, v7, v8, v9, v10, v11, v12, v13, v14, v15, v16

\* The variables from one on, which a part with fewer leaves at 0.
From12 == <<v12, v13, v14, v15, v16>>
From9 == <<v9, v10, v11, From12>>
From7 == <<v7, v8, From9>>
From4 == <<v4, v5, v6, From7>>

Unused12 == v12 = 0 /\ v13 = 0 /\ v14 = 0 /\ v15 = 0 /\ v16 = 0
Unused9 == v9 = 0 /\ v10 = 0 /\ v11 = 0 /\ Unused12
Unused7 == v7 = 0 /\ v8 = 0 /\ Unused9
Unused4 == v4 = 0 /\ v5 = 0 /\ v6 = 0 /\ Unused7
Unused1 == v1 = 0 /\ v2 = 0 /\ v3 = 0 /\ Unused4

-----------------------------------------------------------------------------
Domains == INSTANCE DomainCache WITH
  Queries <- Domain.Queries, Kind <- Domain.Kind, MaxId <- Domain.MaxId, MaxTx <- Domain.MaxTx,
  MaxFailed <- Domain.MaxFailed,
  past <- v1, queue <- v2, mode <- v3, domains <- v4, loader <- v5, pc <- v6, on <- v7, event <- v8,
  snap <- v9, failed <- v10, at <- v11

Rpc == INSTANCE RpcCalls WITH
  Rpcs <- Caller.Rpcs, Call <- Caller.Call, MaxTries <- Caller.MaxTries,
  dead <- v1, at <- v2, tries <- v3, type <- v4, second <- v5, count <- v6, server <- v7, raced <- v8

Streams == INSTANCE EventStreams WITH
  Url <- Streamer.Url, Filter <- Streamer.Filter, Memory <- Streamer.Memory, MaxTx <- Streamer.MaxTx,
  MaxTime <- Streamer.MaxTime, MaxDrops <- Streamer.MaxDrops,
  now <- v1, events <- v2, told <- v3, provider <- v4, dropped <- v5, minNum <- v6, used <- v7,
  stream <- v8, txns <- v9, handled <- v10, heard <- v11

\* The seeder's answers to nodes ...
Seeds == INSTANCE Seeding WITH
  Cred <- Seeded.Cred, PubId <- Seeded.PubId, Posts <- Seeded.Posts, InFlight <- Seeded.InFlight,
  Unfit <- Seeded.Unfit, Result <- Seeded.Result, Respond <- Seeded.Respond, Share <- Seeded.Share,
  Cutoff <- Seeded.Cutoff, MaxAge <- Seeded.MaxAge, MaxNow <- Seeded.MaxNow,
  MaxPeers <- Seeded.MaxPeers,
  now <- v1, peers <- v2, post <- v3, reply <- v4, asked <- v5, cache <- v6

\* ... and to the nameserver, over time.
Records == INSTANCE Seeding WITH
  Cred <- Shared.Cred, PubId <- Shared.PubId, Posts <- Shared.Posts, InFlight <- Shared.InFlight,
  Unfit <- Shared.Unfit, Result <- Shared.Result, Respond <- Shared.Respond, Share <- Shared.Share,
  Cutoff <- Shared.Cutoff, MaxAge <- Shared.MaxAge, MaxNow <- Shared.MaxNow,
  MaxPeers <- Shared.MaxPeers,
  now <- v1, peers <- v2, post <- v3, reply <- v4, asked <- v5, cache <- v6

Test == INSTANCE Tester WITH
  Peers <- Tested.Peers, Agent <- Tested.Agent, Retest <- Tested.Retest, Window <- Tested.Window,
  Patience <- Tested.Patience, Attempts <- Tested.Attempts, Cap <- Tested.Cap, MaxNow <- Tested.MaxNow,
  now <- v1, checked <- v2, todo <- v3, nows <- v4, testing <- v5, phase <- v6, nodes <- v7,
  tasks <- v8, results <- v9, agent <- v10, conn <- v11

\* Routes among nodes in a line ...
Routes == INSTANCE Routing WITH
  Ip <- Line.Ip, Peering <- Line.Peering, Label <- Line.Label, Request <- Line.Request,
  Asked <- Line.Asked, UseOld <- Line.UseOld, Interval <- Line.Interval, MaxNow <- Line.MaxNow,
  MaxChanges <- Line.MaxChanges, MaxGen <- Line.MaxGen, MaxLinks <- Line.MaxLinks,
  now <- v1, changes <- v2, table <- v3, inward <- v4, routing <- v5, owner <- v6, req <- v7, seen <- v8

\* ... and of a pair with several links.
Beside == INSTANCE Routing WITH
  Ip <- Pair.Ip, Peering <- Pair.Peering, Label <- Pair.Label, Request <- Pair.Request,
  Asked <- Pair.Asked, UseOld <- Pair.UseOld, Interval <- Pair.Interval, MaxNow <- Pair.MaxNow,
  MaxChanges <- Pair.MaxChanges, MaxGen <- Pair.MaxGen, MaxLinks <- Pair.MaxLinks,
  now <- v1, changes <- v2, table <- v3, inward <- v4, routing <- v5, owner <- v6, req <- v7, seen <- v8

Buffer == INSTANCE MessageBuffer WITH
  ChunkSize <- Message.ChunkSize, Writes <- Message.Writes, Counts <- Message.Counts,
  MaxLen <- Message.MaxLen,
  chunks <- v1, spare <- v2, result <- v3

Admin == INSTANCE AdminCalls WITH
  Call <- Administered.Call, Auth <- Administered.Auth, Subscribe <- Administered.Subscribe,
  QueueBound <- Administered.QueueBound, StreamBound <- Administered.StreamBound,
  Period <- Administered.Period, MaxStream <- Administered.MaxStream, MaxCopies <- Administered.MaxCopies,
  pc <- v1, txid <- v2, asking <- v3, queue <- v4, ready <- v5, up <- v6, finished <- v7,
  requests <- v8, answered <- v9, streams <- v10, turns <- v11, node <- v12, wire <- v13, sent <- v14,
  inbox <- v15, got <- v16

-----------------------------------------------------------------------------
\* The locks rest in the other parts.
SInit ==
  /\ Init
  /\ \/ part = "domains" /\ Domains!Init /\ Unused12
     \/ part = "rpc" /\ Rpc!Init /\ Unused9
     \/ part = "streams" /\ Streams!Init /\ Unused12
     \/ part = "seeds" /\ Seeds!Init /\ Unused7
     \/ part = "records" /\ Records!Init /\ Unused7
     \/ part = "test" /\ Test!Init /\ Unused12
     \/ part = "routes" /\ Routes!Init /\ Unused9
     \/ part = "beside" /\ Beside!Init /\ Unused9
     \/ part = "tables" /\ Unused1
     \/ part = "buffer" /\ Buffer!Init /\ Unused4
     \/ part = "admin" /\ Admin!Init

Others ==
  \/ part = "domains" /\ Domains!Next /\ UNCHANGED <<part, From12>>
  \/ part = "rpc" /\ Rpc!Next /\ UNCHANGED <<part, From9>>
  \/ part = "streams" /\ Streams!Next /\ UNCHANGED <<part, From12>>
  \/ part = "seeds" /\ Seeds!Next /\ UNCHANGED <<part, From7>>
  \/ part = "records" /\ Records!Next /\ UNCHANGED <<part, From7>>
  \/ part = "test" /\ Test!Next /\ UNCHANGED <<part, From12>>
  \/ part = "routes" /\ Routes!Next /\ UNCHANGED <<part, From9>>
  \/ part = "beside" /\ Beside!Next /\ UNCHANGED <<part, From9>>
  \/ part = "buffer" /\ Buffer!Next /\ UNCHANGED <<part, From4>>
  \/ part = "admin" /\ Admin!Next /\ UNCHANGED part

SNext ==
  \/ Others /\ UNCHANGED vars
  \/ part = "tables" /\ Next /\ UNCHANGED <<part, v1, v2, v3, From4>>

svars == <<part, vars, v1, v2, v3, From4>>

SSpec == SInit /\ [][SNext]_svars

-----------------------------------------------------------------------------
\* Every part's state is of its type.
StatesTyped ==
  CASE part = "domains" -> Domains!TypeOK [] part = "rpc" -> Rpc!TypeOK
    [] part = "streams" -> Streams!TypeOK [] part = "seeds" -> Seeds!TypeOK
    [] part = "records" -> Records!TypeOK [] part = "test" -> Test!TypeOK
    [] part = "routes" -> Routes!TypeOK [] part = "beside" -> Beside!TypeOK
    [] part = "tables" -> TypeOK [] part = "buffer" -> Buffer!TypeOK [] part = "admin" -> Admin!TypeOK

\* The copy of the domains is what the contract is, as its events come in order.  (cjdns-pns lib.rs)
InStep == part = "domains" => Domains!InStep

\* The records answered are the domain's, but for a takeover's.  (update_records, filter_takeover)
RecordsFollow == part = "domains" => Domains!RecordsFollow

\* Who waits for a load waits for one that goes on.  (with_domains, update_all_domains)
LoaderAlive == part = "domains" => Domains!LoaderAlive

\* A call that finds no server found one marked under its eyes.  (rpc, rpc_of_type)
ShortageIsRace == part = "rpc" => Rpc!ShortageIsRace

\* Of the events every server tells of, each is handed on, and once.  (notify_check)
EventsOnce == part = "streams" => Streams!EventsOnce

\* Streams that lose the same connection make one new one.  (get_provider, thread)
OneProviderPerLoss == part = "streams" => Streams!OneProviderPerLoss

\* Whom a node is told to connect to may be: others, public, of a family it has.  (handle_cred)
AnswersFit == part = "seeds" => Seeds!AnswersFit

\* And who may be is told of while there is room.  (handle_cred)
AnswersFull == part = "seeds" => Seeds!AnswersFull

\* The peer id a node came with first decides who is told of it.  (handle_cred, list_peers)
FirstIdDecides == part = "seeds" => Seeds!FirstIdDecides

\* The peers in a TXT record were reached by a test not too long ago.  (list_peers, get_seed_txt)
SeedsTested == part = "records" => Records!SeedsTested

\* A peer in the hands of two agents was given to them a window apart.  (main_loop_cycle)
SentApart == part = "test" => Test!SentApart

\* Connections are those of tests that go on or were given up.  (TestAgent::run)
ConnectionsUsed == part = "test" => Test!ConnectionsUsed

\* A route answered was there, hop for hop, since its graph began to be built.  (get_route_impl)
RouteWasTrue == (part = "routes" => Routes!RouteWasTrue) /\ (part = "beside" => Beside!RouteWasTrue)

\* A route to a peer is the newest link to it.  (service.rs, "gr")
DirectToPeer == part = "beside" => Beside!DirectToPeer

\* A message in chunks is a stack of bytes.  (cjdns-bytes message.rs)
BufferIsStack ==
  /\ part = "buffer" => Buffer!Stack!Init
  /\ [][part = "buffer" => Buffer!Stack!Next]_<<part, Buffer!bytes, v3>>

\* A request on the wire has a slot for its answer.  (register_request, cleanup)
AnswerHasSlot == part = "admin" => Admin!AnswerHasSlot

\* A subscriber misses nothing between two messages.  (dispatch_message)
NoGaps == part = "admin" => Admin!NoGaps

-----------------------------------------------------------------------------
\* The copy of the domains follows the contract.  (cjdns-pns lib.rs: the handlers of the filters)
ContractFollowed == InStep /\ RecordsFollow

\* The seeder hands out whom it may, all it can, and whom a test reached.  (seeder/mod.rs)
SeedsFit == AnswersFit /\ AnswersFull /\ FirstIdDecides /\ SeedsTested

\* A route is true, and one to a peer is direct.  (get_route_impl; service.rs, "gr")
RoutesHold == RouteWasTrue /\ DirectToPeer
=============================================================================
