----------------------------- MODULE PeerGossip -----------------------------
(***************************************************************************)
(* How supernodes exchange announcements (cjdns-snode, peer.rs and         *)
(* peer/).  A supernode dials the peers of its configuration; the side     *)
(* that accepts offers hashes (INV), the side that dialled asks for those  *)
(* it does not know (GET_DATA) and hands the answers (DATA) to the task    *)
(* that handles announcements, which offers what it accepts to its own     *)
(* incoming peers.                                                         *)
(*                                                                         *)
(* A connection c of Conns is one websocket, used once.  Its ends          *)
(* <<c, "Outgoing">> and <<c, "Incoming">> are the two Peer values made    *)
(* for it, each with a bounded queue and a task; wire[e] is what the task  *)
(* of end e has written and the other end has not read.  Handling an       *)
(* announcement is reduced to what it does to the AnnList (module          *)
(* AnnounceHandling has the rest): an announcement is a hash, and one that *)
(* supersedes others withdraws them.                                       *)
(***************************************************************************)
EXTENDS Integers, Sequences, FiniteSets, SequencesExt, Sublists

CONSTANTS Nodes,        \* supernodes
          Conns,        \* websocket connections, a bound on reconnecting
          Client,       \* Conns -> Nodes: who dialled
          Server,       \* Conns -> Nodes: who accepted
          Hashes,       \* announcements
          Origin,       \* Hashes -> Nodes: the supernode it is announced to
          Supersedes,   \* <<newer, older>>: newer withdraws older
          QueueSize,    \* room of a peer's queue (1024)
          AnnQueueSize, \* room of the queue of announcements (256)
          WireSize,     \* messages the transport buffers
          ChunkSize,    \* hashes in an INV of the first offer (128)
          PingAfter,    \* PING_AFTER, in ping cycles
          DropAfter,    \* DROP_AFTER, in ping cycles
          MaxLag,       \* Nodes -> Nat: bound on the silence a supernode sees
          Strays,       \* [end, msg]: what a peer of another make may write
          Hung          \* ends whose task may stop for good

Ends == Conns \X {"Incoming", "Outgoing"}
Callers == {"gossip", "service"}

NodeOf(e) == IF e[2] = "Outgoing" THEN Client[e[1]] ELSE Server[e[1]]
Other(e) == <<e[1], IF e[2] = "Outgoing" THEN "Incoming" ELSE "Outgoing">>

\* The body of INV is its list, of GET_DATA its hash, of DATA the
\* announcement or nothing.  The id of a PING and its ACK is never looked at.
Msg(type, id, body) == [type |-> type, id |-> id, body |-> body]
NoMsg == Msg("none", 0, <<>>)

Message ==
  [type : {"none", "HELLO", "OLLEH", "PING", "ACK", "INV", "GET_DATA", "DATA"},
   id : Nat, body : Seq(Hashes)]

ASSUME SizesAssumption ==
  /\ QueueSize \in Nat \ {0} /\ AnnQueueSize \in Nat \ {0} /\ WireSize \in Nat \ {0}
  /\ ChunkSize \in Nat \ {0}
ASSUME TimesAssumption == PingAfter \in Nat /\ DropAfter \in Nat /\ MaxLag \in [Nodes -> Nat]
ASSUME PeersAssumption ==
  /\ Client \in [Conns -> Nodes] /\ Server \in [Conns -> Nodes]
  /\ Origin \in [Hashes -> Nodes] /\ Supersedes \subseteq Hashes \X Hashes
  /\ Strays \subseteq [end : Ends, msg : Message] /\ Hung \subseteq Ends

VARIABLES anns,      \* Peers.anns: the AnnList of each supernode, in order
          annQueue,  \* announcements fetched, not yet handled
          caller,    \* the two tasks that call add_ann
          announced, \* hashes their own nodes have announced
          peers,     \* PeerList: the listed ends of each supernode
          lag,       \* ping cycles since last_msg_time
          ping,      \* the ping task's lists
          task,      \* where incoming(), outgoing() or run_websocket() is
          queue,     \* the queue behind Peer.msg_queue
          reqs,      \* Peer.outstanding_reqs
          msgId,     \* Peers.msg_id_seq
          wire,      \* the transport
          broken,    \* the websocket is closed
          strayed,   \* strays written
          offered,   \* history: hashes put in INVs for an incoming peer
          cut        \* history: hashes whose add_ann was cancelled

nodeVars == <<anns, annQueue, caller, announced>>
listVars == <<peers, lag, ping>>
connVars == <<reqs, msgId, wire, broken, strayed>>
history == <<offered, cut>>
vars == <<nodeVars, listVars, task, queue, connVars, history>>

Stages == {"unused", "accepted", "created", "greeted", "inv", "run", "write",
           "reply", "ask", "announce", "closed"}

Task(stage, todo, out) == [stage |-> stage, todo |-> todo, out |-> out]
Tasks == [stage : Stages, todo : Seq(Hashes), out : Message]
Serving == Task("run", <<>>, NoMsg)
Call(step, hash, todo) == [step |-> step, hash |-> hash, todo |-> todo]
Calls == [step : {"idle", "add", "list", "send"}, hash : Seq(Hashes), todo : Seq(Ends)]

\* Every list, queue and task holds what it is for, and no queue more than its bound.
TypeOK ==
  /\ anns \in [Nodes -> Seq(Hashes)]
  /\ annQueue \in [Nodes -> Seq(Seq(Hashes))]
  /\ \A n \in Nodes : Len(annQueue[n]) <= AnnQueueSize
  /\ caller \in [Nodes -> [Callers -> Calls]]
  /\ announced \subseteq Hashes
  /\ peers \in [Nodes -> Seq(Ends)]
  /\ lag \in [Ends -> Nat]
  /\ ping \in [Nodes -> [ping : Seq(Ends), drop : Seq(Ends)]]
  /\ task \in [Ends -> Tasks]
  /\ queue \in [Ends -> Seq(Message)]
  /\ \A e \in Ends : Len(queue[e]) <= QueueSize
  /\ reqs \in [Ends -> SUBSET Nat]
  /\ msgId \in [Nodes -> Nat]
  /\ wire \in [Ends -> Seq(Message)]
  /\ \A e \in Ends : Len(wire[e]) <= WireSize
  /\ broken \in [Conns -> BOOLEAN]
  /\ strayed \subseteq Strays
  /\ offered \in [Ends -> SUBSET Hashes]
  /\ cut \subseteq Hashes

Idle == Call("idle", <<>>, <<>>)
Sending(hash, todo) == IF todo = <<>> THEN Idle ELSE Call("send", hash, todo)

Init ==
  /\ anns = [n \in Nodes |-> <<>>]
  /\ annQueue = [n \in Nodes |-> <<>>]
  /\ caller = [n \in Nodes |-> [c \in Callers |-> Idle]]
  /\ announced = {}
  /\ peers = [n \in Nodes |-> <<>>]
  /\ lag = [e \in Ends |-> 0]
  /\ ping = [n \in Nodes |-> [ping |-> <<>>, drop |-> <<>>]]
  /\ task = [e \in Ends |-> Task("unused", <<>>, NoMsg)]
  /\ queue = [e \in Ends |-> <<>>]
  /\ reqs = [e \in Ends |-> {}]
  /\ msgId = [n \in Nodes |-> 0]
  /\ wire = [e \in Ends |-> <<>>]
  /\ broken = [c \in Conns |-> FALSE]
  /\ strayed = {}
  /\ offered = [e \in Ends |-> {}]
  /\ cut = {}
-----------------------------------------------------------------------------
Known(n, hash) == hash \in ToSet(anns[n])
IsListed(e) == e \in ToSet(peers[NodeOf(e)])
Unlisted(e) == [peers EXCEPT ![NodeOf(e)] = Among(@, Ends \ {e})]
HasRoom(e) == Len(queue[e]) < QueueSize

\* A loop over hashes goes on in its stage, or ends and the websocket is served.
Continue(stage, todo) == Task(IF todo = <<>> THEN "run" ELSE stage, todo, NoMsg)

\* Mutant of Enqueue: an unbounded queue.
EnqueueUnbounded(e, m) == queue' = [queue EXCEPT ![e] = Append(@, m)]

\* The await of Peer::send_msg: it waits for room.
Enqueue(e, m) == /\ HasRoom(e)
                 /\ queue' = [queue EXCEPT ![e] = Append(@, m)]

\* The same for the sends whose error is ignored, the only one being that
\* the receiver is gone.
EnqueueUnlessClosed(e, m) ==
  \/ task[e].stage = "closed" /\ UNCHANGED queue
  \/ task[e].stage # "closed" /\ Enqueue(e, m)

-----------------------------------------------------------------------------
(* Connecting.                                                             *)

\* One connection at a time for each peer of the configuration.
Dialling(c) ==
  \A d \in Conns : Client[d] = Client[c] /\ Server[d] = Server[c]
                     => task[<<d, "Outgoing">>].stage \in {"unused", "closed"}

\* connect_async succeeds, outgoing() lists the peer and queues OLLEH in a
\* queue that is still empty.
Connect(c) ==
  LET e == <<c, "Outgoing">>
  IN  /\ task[e].stage = "unused" /\ Dialling(c)
      /\ task' = [task EXCEPT ![e] = Serving,
                              ![Other(e)] = Task("accepted", <<>>, NoMsg)]
      /\ queue' = [queue EXCEPT ![e] = <<Msg("OLLEH", 0, <<>>)>>]
      /\ peers' = [peers EXCEPT ![NodeOf(e)] = Append(@, e)]
      /\ UNCHANGED <<nodeVars, lag, ping, connVars, history>>

\* incoming(): the peer is listed, ...
CreatePeer(e) ==
  /\ task[e].stage = "accepted"
  /\ task' = [task EXCEPT ![e].stage = "created"]
  /\ peers' = [peers EXCEPT ![NodeOf(e)] = Append(@, e)]
  /\ UNCHANGED <<nodeVars, lag, ping, queue, connVars, history>>

\* ... greeted, ...
Hello(e) ==
  /\ task[e].stage = "created"
  /\ Enqueue(e, Msg("HELLO", 0, <<>>))
  /\ task' = [task EXCEPT ![e].stage = "greeted"]
  /\ UNCHANGED <<nodeVars, listVars, connVars, history>>

\* Mutant of HashList: only what is added from now on is offered.
HashListSkipped(e) ==
  /\ task[e].stage = "greeted"
  /\ task' = [task EXCEPT ![e] = Serving]
  /\ UNCHANGED <<nodeVars, listVars, queue, connVars, history>>

\* ... the hashes known are copied, ...
HashList(e) ==
  /\ task[e].stage = "greeted"
  /\ task' = [task EXCEPT ![e] = Continue("inv", anns[NodeOf(e)])]
  /\ UNCHANGED <<nodeVars, listVars, queue, connVars, history>>

\* ... and offered in chunks.  The websocket is served only after the last.
OfferChunk(e) ==
  LET todo == task[e].todo
      n == IF Len(todo) < ChunkSize THEN Len(todo) ELSE ChunkSize
      chunk == SubSeq(todo, 1, n)
      rest == SubSeq(todo, n + 1, Len(todo))
  IN  /\ task[e].stage = "inv"
      /\ Enqueue(e, Msg("INV", 0, chunk))
      /\ offered' = [offered EXCEPT ![e] = @ \cup ToSet(chunk)]
      /\ task' = [task EXCEPT ![e] = Continue("inv", rest)]
      /\ UNCHANGED <<nodeVars, listVars, connVars, cut>>

-----------------------------------------------------------------------------
(* run_websocket: the loop over select!.                                   *)

\* The task ends: the queue's receiver and the socket are dropped, and the
\* peer is taken off the list.
Closed(e) ==
  /\ task' = [task EXCEPT ![e] = Task("closed", <<>>, NoMsg)]
  /\ queue' = [queue EXCEPT ![e] = <<>>]
  /\ peers' = Unlisted(e)
  /\ broken' = [broken EXCEPT ![e[1]] = TRUE]

\* First branch: take a message of the queue, ...
Recv(e) ==
  /\ task[e].stage = "run" /\ queue[e] # <<>>
  /\ task' = [task EXCEPT ![e] = Task("write", <<>>, Head(queue[e]))]
  /\ queue' = [queue EXCEPT ![e] = Tail(@)]
  /\ UNCHANGED <<nodeVars, listVars, connVars, history>>

\* ... and write it, reading nothing until it is written.
Write(e) ==
  /\ task[e].stage = "write" /\ ~broken[e[1]] /\ Len(wire[e]) < WireSize
  /\ wire' = [wire EXCEPT ![e] = Append(@, task[e].out)]
  /\ task' = [task EXCEPT ![e] = Serving]
  /\ UNCHANGED <<nodeVars, listVars, queue, reqs, msgId, broken, strayed, history>>

\* Mutant of Fail: an error of the write is not seen.
FailOnRead(e) ==
  /\ task[e].stage = "run" /\ broken[e[1]]
  /\ Closed(e)
  /\ wire' = [wire EXCEPT ![Other(e)] = <<>>]
  /\ UNCHANGED <<nodeVars, lag, ping, reqs, msgId, strayed, history>>

\* Reading from or writing to a closed websocket is an error; what was still
\* to be read is lost.
Fail(e) ==
  /\ task[e].stage \in {"run", "write"} /\ broken[e[1]]
  /\ Closed(e)
  /\ wire' = [wire EXCEPT ![Other(e)] = <<>>]
  /\ UNCHANGED <<nodeVars, lag, ping, reqs, msgId, strayed, history>>

Goes(e, next) ==
  /\ task' = [task EXCEPT ![e] = next]
  /\ UNCHANGED <<queue, peers, broken>>

\* An incoming peer must say OLLEH, an outgoing one HELLO.
HandleHello(e, m) ==
  /\ m.type \in {"HELLO", "OLLEH"}
  /\ IF (m.type = "HELLO") # (e[2] = "Outgoing")
     THEN Closed(e)
     ELSE Goes(e, Serving)
  /\ UNCHANGED reqs

HandleGetData(e, m) ==
  /\ m.type = "GET_DATA"
  /\ LET data == Among(m.body, ToSet(anns[NodeOf(e)]))
     IN  Goes(e, Task("reply", <<>>, Msg("DATA", m.id, data)))
  /\ UNCHANGED reqs

HandlePing(e, m) ==
  /\ m.type = "PING"
  /\ Goes(e, Task("reply", <<>>, Msg("ACK", m.id, <<>>)))
  /\ UNCHANGED reqs

HandleAck(e, m) ==
  /\ m.type = "ACK"
  /\ Goes(e, Serving)
  /\ UNCHANGED reqs

HandleInv(e, m) ==
  /\ m.type = "INV"
  /\ IF e[2] = "Outgoing"
     THEN Goes(e, Continue("ask", m.body))
     ELSE Goes(e, Serving)
  /\ UNCHANGED reqs

\* DATA that was not asked for ends the connection.
HandleData(e, m) ==
  /\ m.type = "DATA"
  /\ reqs' = [reqs EXCEPT ![e] = IF e[2] = "Outgoing" THEN @ \ {m.id} ELSE @]
  /\ \/ e[2] = "Outgoing" /\ m.id \in reqs[e] /\ Goes(e, Task("announce", <<>>, m))
     \/ e[2] = "Outgoing" /\ m.id \notin reqs[e] /\ Closed(e)
     \/ e[2] = "Incoming" /\ Goes(e, Serving)

\* Second branch: read a message and handle it.
Read(e) ==
  LET w == wire[Other(e)]
  IN  /\ task[e].stage = "run" /\ w # <<>>
      /\ wire' = [wire EXCEPT ![Other(e)] = Tail(w)]
      /\ lag' = [lag EXCEPT ![e] = 0]
      /\ \/ HandleHello(e, Head(w))
         \/ HandleGetData(e, Head(w))
         \/ HandlePing(e, Head(w))
         \/ HandleAck(e, Head(w))
         \/ HandleInv(e, Head(w))
         \/ HandleData(e, Head(w))
      /\ UNCHANGED <<nodeVars, ping, msgId, strayed, history>>

\* Mutant of Ask: the id is read and not advanced.
AskSameId(e) ==
  LET n == NodeOf(e)
      hash == Head(task[e].todo)
      rest == Tail(task[e].todo)
  IN  /\ task[e].stage = "ask"
      /\ \/ /\ Known(n, hash)
            /\ task' = [task EXCEPT ![e] = Continue("ask", rest)]
            /\ UNCHANGED reqs
         \/ /\ ~Known(n, hash)
            /\ reqs' = [reqs EXCEPT ![e] = @ \cup {msgId[n]}]
            /\ task' = [task EXCEPT ![e] = Task("reply", rest, Msg("GET_DATA", msgId[n], <<hash>>))]
      /\ UNCHANGED <<nodeVars, listVars, queue, msgId, wire, broken, strayed, history>>

\* The loop over an INV: the next hash, asked for unless it is known.
Ask(e) ==
  LET n == NodeOf(e)
      hash == Head(task[e].todo)
      rest == Tail(task[e].todo)
  IN  /\ task[e].stage = "ask"
      /\ \/ /\ Known(n, hash)
            /\ task' = [task EXCEPT ![e] = Continue("ask", rest)]
            /\ UNCHANGED <<reqs, msgId>>
         \/ /\ ~Known(n, hash)
            /\ msgId' = [msgId EXCEPT ![n] = @ + 1]
            /\ reqs' = [reqs EXCEPT ![e] = @ \cup {msgId[n]}]
            /\ task' = [task EXCEPT ![e] = Task("reply", rest, Msg("GET_DATA", msgId[n], <<hash>>))]
      /\ UNCHANGED <<nodeVars, listVars, queue, wire, broken, strayed, history>>

\* handle_message waits for room in the queue its own task empties.
Reply(e) ==
  /\ task[e].stage = "reply"
  /\ Enqueue(e, task[e].out)
  /\ task' = [task EXCEPT ![e] = Continue("ask", @.todo)]
  /\ UNCHANGED <<nodeVars, listVars, connVars, history>>

\* Mutant of Announce: try_send, which loses the announcement when there is no room.
AnnounceOrLose(e) ==
  LET n == NodeOf(e)
  IN  /\ task[e].stage = "announce"
      /\ annQueue' = [annQueue EXCEPT ![n] =
           IF Len(@) < AnnQueueSize THEN Append(@, task[e].out.body) ELSE @]
      /\ task' = [task EXCEPT ![e] = Serving]
      /\ UNCHANGED <<anns, caller, announced, listVars, queue, connVars, history>>

\* The await of ann_tx.send.
Announce(e) ==
  LET n == NodeOf(e)
  IN  /\ task[e].stage = "announce" /\ Len(annQueue[n]) < AnnQueueSize
      /\ annQueue' = [annQueue EXCEPT ![n] = Append(@, task[e].out.body)]
      /\ task' = [task EXCEPT ![e] = Serving]
      /\ UNCHANGED <<anns, caller, announced, listVars, queue, connVars, history>>
-----------------------------------------------------------------------------
(* The tasks that handle announcements.                                    *)

Superseded(n, hash) == \E newer \in ToSet(anns[n]) : <<newer, hash>> \in Supersedes

\* handle_announce_impl up to add_ann: an announcement that is still news
\* withdraws (del_ann) those it supersedes.
Handle(n, c, hash) ==
  \/ Superseded(n, hash) /\ UNCHANGED <<anns, caller>>
  \/ /\ ~Superseded(n, hash)
     /\ anns' = [anns EXCEPT ![n] = Among(@, { older \in Hashes : <<hash, older>> \notin Supersedes })]
     /\ caller' = [caller EXCEPT ![n][c] = Call("add", <<hash>>, <<>>)]

\* The announcements task; an empty announcement does not parse.
HandleGossip(n) ==
  /\ caller[n]["gossip"].step = "idle" /\ annQueue[n] # <<>>
  /\ annQueue' = [annQueue EXCEPT ![n] = Tail(@)]
  /\ \/ Head(annQueue[n]) = <<>> /\ UNCHANGED <<anns, caller>>
     \/ Head(annQueue[n]) # <<>> /\ Handle(n, "gossip", Head(annQueue[n])[1])
  /\ UNCHANGED <<announced, listVars, task, queue, connVars, history>>

\* The service task, for a node that uses this supernode.
HandleService(n, hash) ==
  /\ caller[n]["service"].step = "idle"
  /\ Origin[hash] = n /\ hash \notin announced
  /\ announced' = announced \cup {hash}
  /\ Handle(n, "service", hash)
  /\ UNCHANGED <<annQueue, listVars, task, queue, connVars, history>>

\* add_ann: add the hash under the list's lock, ...
AddAnn(n, c) ==
  LET call == caller[n][c]
  IN  /\ call.step = "add"
      /\ \/ /\ Known(n, call.hash[1])
            /\ caller' = [caller EXCEPT ![n][c] = Idle]
            /\ UNCHANGED anns
         \/ /\ ~Known(n, call.hash[1])
            /\ anns' = [anns EXCEPT ![n] = Append(@, call.hash[1])]
            /\ caller' = [caller EXCEPT ![n][c].step = "list"]
      /\ UNCHANGED <<annQueue, announced, listVars, task, queue, connVars, history>>

\* ... then copy the list of peers, ...
ListPeers(n, c) ==
  LET incoming == Among(peers[n], Conns \X {"Incoming"})
  IN  /\ caller[n][c].step = "list"
      /\ caller' = [caller EXCEPT ![n][c] = Sending(@.hash, incoming)]
      /\ UNCHANGED <<anns, annQueue, announced, listVars, task, queue, connVars, history>>

\* ... and send the hash to each in turn, waiting for each.
SendInv(n, c) ==
  LET call == caller[n][c]
      e == Head(call.todo)
  IN  /\ call.step = "send"
      /\ EnqueueUnlessClosed(e, Msg("INV", 0, call.hash))
      /\ offered' = [offered EXCEPT ![e] = @ \cup ToSet(call.hash)]
      /\ caller' = [caller EXCEPT ![n][c] = Sending(@.hash, Tail(@.todo))]
      /\ UNCHANGED <<anns, annQueue, announced, listVars, task, connVars, cut>>

\* The connection to the local node fails while add_ann waits for room: the
\* select! of the service task drops the handler, and the peers that are left
\* are not told.
CancelService(n) ==
  LET call == caller[n]["service"]
  IN  /\ call.step = "send"
      /\ task[Head(call.todo)].stage # "closed" /\ ~HasRoom(Head(call.todo))
      /\ caller' = [caller EXCEPT ![n]["service"] = Idle]
      /\ cut' = cut \cup ToSet(call.hash)
      /\ UNCHANGED <<anns, annQueue, announced, listVars, task, queue, connVars, offered>>

-----------------------------------------------------------------------------
(* The ping task.                                                          *)

\* Mutant of DoPings: whoever is due for a ping is not looked at for dropping.
DoPingsFirst(n) ==
  /\ ping[n] = [ping |-> <<>>, drop |-> <<>>]
  /\ \E d \in 1..MaxLag[n] :
       LET After(e) == IF lag[e] + d > MaxLag[n] THEN MaxLag[n] ELSE lag[e] + d
       IN  /\ lag' = [e \in Ends |-> IF e \in ToSet(peers[n]) THEN After(e) ELSE lag[e]]
           /\ ping' = [ping EXCEPT ![n].ping = Among(peers[n], { e \in Ends : PingAfter < After(e) })]
  /\ UNCHANGED <<nodeVars, peers, task, queue, connVars, history>>

\* A cycle: d of them have passed, one unless the last was held up.
DoPings(n) ==
  /\ ping[n] = [ping |-> <<>>, drop |-> <<>>]
  /\ \E d \in 1..MaxLag[n] :
       LET After(e) == IF lag[e] + d > MaxLag[n] THEN MaxLag[n] ELSE lag[e] + d
       IN  /\ lag' = [e \in Ends |-> IF e \in ToSet(peers[n]) THEN After(e) ELSE lag[e]]
           /\ ping' = [ping EXCEPT ![n] =
                [ping |-> Among(peers[n], { e \in Ends : PingAfter < After(e) /\ After(e) <= DropAfter }),
                 drop |-> Among(peers[n], { e \in Ends : DropAfter < After(e) })]]
  /\ UNCHANGED <<nodeVars, peers, task, queue, connVars, history>>

PingPeer(n) ==
  /\ ping[n].ping # <<>>
  /\ EnqueueUnlessClosed(Head(ping[n].ping), Msg("PING", 0, <<>>))
  /\ ping' = [ping EXCEPT ![n].ping = Tail(@)]
  /\ UNCHANGED <<nodeVars, peers, lag, task, connVars, history>>

\* A timed out peer is taken off the list, after the pings; its connection
\* and its task stay.
DropPeer(n) ==
  /\ ping[n].ping = <<>> /\ ping[n].drop # <<>>
  /\ peers' = Unlisted(Head(ping[n].drop))
  /\ ping' = [ping EXCEPT ![n].drop = Tail(@)]
  /\ UNCHANGED <<nodeVars, lag, task, queue, connVars, history>>

-----------------------------------------------------------------------------
(* The transport.                                                          *)

Break(c) ==
  /\ task[<<c, "Outgoing">>].stage # "unused" /\ ~broken[c]
  /\ broken' = [broken EXCEPT ![c] = TRUE]
  /\ UNCHANGED <<nodeVars, listVars, task, queue, reqs, msgId, wire, strayed, history>>

\* A peer of another make says one thing out of turn.
Stray(s) ==
  /\ strayed = {} /\ task[s.end].stage # "unused" /\ ~broken[s.end[1]]
  /\ Len(wire[s.end]) < WireSize
  /\ strayed' = strayed \cup {s}
  /\ wire' = [wire EXCEPT ![s.end] = Append(@, s.msg)]
  /\ UNCHANGED <<nodeVars, listVars, task, queue, reqs, msgId, broken, history>>

-----------------------------------------------------------------------------
Greet(e) == CreatePeer(e) \/ Hello(e) \/ HashList(e) \/ OfferChunk(e)
Serve(e) == Write(e) \/ Ask(e) \/ Reply(e) \/ Announce(e)
AddAnnStep(n, c) == AddAnn(n, c) \/ ListPeers(n, c) \/ SendInv(n, c)
PingStep(n) == PingPeer(n) \/ DropPeer(n)

Next ==
  \/ \E c \in Conns : Connect(c) \/ Break(c)
  \/ \E e \in Ends : Greet(e) \/ Serve(e) \/ Recv(e) \/ Read(e) \/ Fail(e)
  \/ \E n \in Nodes : HandleGossip(n) \/ CancelService(n) \/ DoPings(n) \/ PingStep(n)
  \/ \E n \in Nodes, hash \in Hashes : HandleService(n, hash)
  \/ \E n \in Nodes, c \in Callers : AddAnnStep(n, c)
  \/ \E s \in Strays : Stray(s)

\* The runtime runs every task that can go on, and sleeps end.  select! polls
\* its branches in a random order, so a branch that is ready time and again is
\* taken (SF).  Nothing makes a node announce, a connection fail, a stray
\* arrive or a hung peer go on.
Fairness ==
  /\ \A c \in Conns : WF_vars(Connect(c))
  /\ \A e \in Ends \ Hung : /\ WF_vars(Greet(e) \/ Serve(e) \/ Fail(e))
                            /\ SF_vars(Recv(e)) /\ SF_vars(Read(e))
  /\ \A n \in Nodes : /\ WF_vars(HandleGossip(n) \/ AddAnnStep(n, "gossip"))
                      /\ WF_vars(AddAnnStep(n, "service"))
                      /\ WF_vars(DoPings(n) \/ PingStep(n))

Spec == Init /\ [][Next]_vars /\ Fairness

-----------------------------------------------------------------------------
\* A listed incoming peer misses no hash: each that the supernode holds has
\* been offered to it, or is in the copy incoming() is still offering, or is
\* in the hands of an add_ann that has yet to come to this peer.  The exception
\* are hashes whose add_ann the service task cancelled.  It rests on incoming()
\* listing the peer before it copies the hashes and add_ann adding
\* the hash before it copies the peers.
NoneMissed ==
  \A e \in Ends : e[2] = "Incoming" /\ IsListed(e) /\ task[e].stage \notin {"created", "greeted"} =>
    \A hash \in ToSet(anns[NodeOf(e)]) \ cut :
      \/ hash \in offered[e]
      \/ task[e].stage = "inv" /\ hash \in ToSet(task[e].todo)
      \/ \E c \in Callers :
           LET call == caller[NodeOf(e)][c]
           IN  /\ call.hash = <<hash>>
               /\ call.step = "list" \/ (call.step = "send" /\ e \in ToSet(call.todo))

Strayed(c) == \E s \in strayed : s.end[1] = c

\* The places where the messages of end e are under way: its queue, the hands of its
\* task, and the transport.
Places(e) == { <<e, "queue", i>> : i \in DOMAIN queue[e] } \cup { <<e, "task", 1>> }
               \cup { <<e, "wire", i>> : i \in DOMAIN wire[e] }
At(p) == IF p[2] = "queue" THEN queue[p[1]][p[3]]
         ELSE IF p[2] = "wire" THEN wire[p[1]][p[3]] ELSE task[p[1]].out
Sent(e, type) == { p \in Places(e) : At(p).type = type }

\* Requests of an outgoing peer and their answers that are under way.
UnderWay(e) == Sent(e, "GET_DATA") \cup Sent(Other(e), "DATA")

\* Unless a peer speaks out of turn, no DATA is ever "unexpected" (which would end the
\* connection): what is under way is outstanding, and under way once.
AnswersExpected ==
  \A e \in Ends : e[2] = "Outgoing" /\ ~Strayed(e[1]) =>
    /\ \A p \in UnderWay(e) : At(p).id \in reqs[e]
    /\ \A p, q \in UnderWay(e) : At(p).id = At(q).id => p = q

Up(c) == ~broken[c] /\ \A e \in Ends : e[1] = c => task[e].stage \notin {"unused", "closed"}

\* What a supernode holds, the peers that stay connected and listed come to
\* hold too, it or what superseded it.
Delivered ==
  \A c \in Conns, hash \in Hashes :
    <>[](Known(Server[c], hash) /\ hash \notin cut /\ Up(c) /\ IsListed(<<c, "Incoming">>))
      => <>(Known(Client[c], hash) \/ Superseded(Client[c], hash))

\* Once a websocket is closed, incoming() and outgoing() return, which they do
\* only when run_websocket comes round to its socket.
Completes ==
  \A e \in Ends \ Hung : broken[e[1]] ~> task[e].stage = "closed"

\* "If the connection can't be established or closed by the remote side, it
\* will be reconnected automatically after a delay" (connect_to): outgoing()
\* returns once its websocket is closed.
Redials ==
  \A c \in Conns : broken[c] ~> task[<<c, "Outgoing">>].stage = "closed"

\* The ping task gets rid of silent peers: one that stays listed is heard from
\* (last_msg_time) again and again.
SilentDropped ==
  \A e \in Ends : MaxLag[NodeOf(e)] > DropAfter => []<>(lag[e] = 0 \/ ~IsListed(e))
=============================================================================
