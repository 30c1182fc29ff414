-------------------------- MODULE PeerGossipProofs --------------------------
(***************************************************************************)
(* Proofs about PeerGossip, for every set of supernodes, connections and   *)
(* announcements, every size of the queues and every stray message.        *)
(***************************************************************************)
EXTENDS PeerGossip, SublistProofs

-----------------------------------------------------------------------------
(* What messages, tasks, calls and lists are made of.                       *)

LEMMA EndsTyped ==
  ASSUME NEW e \in Ends
  PROVE  /\ NodeOf(e) \in Nodes /\ Other(e) \in Ends /\ Other(e) # e /\ Other(Other(e)) = e
         /\ e[1] \in Conns /\ e[2] \in {"Incoming", "Outgoing"} /\ Other(e)[1] = e[1]
         /\ Other(e)[2] # e[2] /\ e = <<e[1], e[2]>>
  BY PeersAssumption DEF Ends, NodeOf, Other

LEMMA MessageTyped ==
  /\ \A type \in {"HELLO", "OLLEH", "PING", "ACK", "INV", "GET_DATA", "DATA"},
        id \in Nat, body \in Seq(Hashes) :
       Msg(type, id, body) \in Message /\ Msg(type, id, <<>>) \in Message
  /\ \A type \in {"HELLO", "OLLEH", "PING"} : Msg(type, 0, <<>>) \in Message
  /\ NoMsg \in Message
  /\ \A m \in Message : m.id \in Nat /\ m.body \in Seq(Hashes)
  <1>1. <<>> \in Seq(Hashes) /\ 0 \in Nat
    OBVIOUS
  <1> QED BY <1>1 DEF Msg, NoMsg, Message

LEMMA TaskTyped ==
  /\ \A stage \in Stages, todo \in Seq(Hashes), out \in Message : Task(stage, todo, out) \in Tasks
  /\ \A t \in Tasks : t.stage \in Stages /\ t.todo \in Seq(Hashes) /\ t.out \in Message
  /\ \A t \in Tasks, stage \in Stages : [t EXCEPT !.stage = stage] \in Tasks
  /\ \A stage \in Stages, todo \in Seq(Hashes) : Continue(stage, todo) \in Tasks
  /\ \A stage \in Stages : Task(stage, <<>>, NoMsg) \in Tasks
  /\ \A stage \in Stages, out \in Message : Task(stage, <<>>, out) \in Tasks
  /\ Serving \in Tasks
  <1>1. \A stage \in Stages, todo \in Seq(Hashes), out \in Message : Task(stage, todo, out) \in Tasks
    BY DEF Task, Tasks
  <1>2. <<>> \in Seq(Hashes) /\ NoMsg \in Message /\ "run" \in Stages
    BY MessageTyped DEF Stages
  <1>3. \A t \in Tasks : t.stage \in Stages /\ t.todo \in Seq(Hashes) /\ t.out \in Message
    BY DEF Tasks
  <1>4. \A t \in Tasks, stage \in Stages : [t EXCEPT !.stage = stage] \in Tasks
    BY DEF Tasks
  <1> QED BY <1>1, <1>2, <1>3, <1>4 DEF Continue, Serving

LEMMA CallTyped ==
  /\ \A step \in {"idle", "add", "list", "send"}, hash \in Seq(Hashes), todo \in Seq(Ends) :
       Call(step, hash, todo) \in Calls
  /\ \A k \in Calls : k.hash \in Seq(Hashes) /\ k.todo \in Seq(Ends)
  /\ \A k \in Calls, step \in {"idle", "add", "list", "send"} : [k EXCEPT !.step = step] \in Calls
  /\ \A hash \in Seq(Hashes), todo \in Seq(Ends) : Sending(hash, todo) \in Calls
  /\ Idle \in Calls
  BY DEF Call, Calls, Sending, Idle

\* What a list loses or gains with its head, its last element or its first n.
LEMMA ListParts ==
  ASSUME NEW S, NEW s \in Seq(S)
  PROVE  /\ \A x \in S : /\ Append(s, x) \in Seq(S) /\ Len(Append(s, x)) = Len(s) + 1
                         /\ ToSet(Append(s, x)) = ToSet(s) \cup {x}
         /\ s # <<>> => /\ Head(s) \in S /\ Tail(s) \in Seq(S) /\ Len(Tail(s)) = Len(s) - 1
                        /\ ToSet(s) = {Head(s)} \cup ToSet(Tail(s))
         /\ ToSet(<<>>) = {}
         /\ \A x \in S : ToSet(<<x>>) = {x}
  <1>1. \A x \in S : /\ Append(s, x) \in Seq(S) /\ Len(Append(s, x)) = Len(s) + 1
                     /\ ToSet(Append(s, x)) = ToSet(s) \cup {x}
    <2> TAKE x \in S
    <2> DEFINE t == Append(s, x)
    <2>1. /\ t \in Seq(S) /\ Len(t) = Len(s) + 1 /\ DOMAIN t = 1..(Len(s) + 1) /\ DOMAIN s = 1..Len(s)
          /\ Len(s) \in Nat /\ t[Len(s) + 1] = x /\ \A i \in DOMAIN s : t[i] = s[i]
      OBVIOUS
    <2> HIDE DEF t
    <2>2. \A i \in DOMAIN t : i = Len(s) + 1 \/ i \in DOMAIN s
      BY <2>1
    <2>3. \A y : (\E i \in DOMAIN t : t[i] = y) <=> y = x \/ \E i \in DOMAIN s : s[i] = y
      BY <2>1, <2>2
    <2>4. ToSet(t) = ToSet(s) \cup {x}
      BY <2>3 DEF ToSet
    <2> QED BY <2>1, <2>4 DEF t
  <1>2. ASSUME s # <<>>
        PROVE  /\ Head(s) \in S /\ Tail(s) \in Seq(S) /\ Len(Tail(s)) = Len(s) - 1
               /\ ToSet(s) = {Head(s)} \cup ToSet(Tail(s))
    <2> DEFINE t == Tail(s)
    <2>1. /\ Head(s) \in S /\ t \in Seq(S) /\ Len(t) = Len(s) - 1 /\ DOMAIN t = 1..(Len(s) - 1)
          /\ DOMAIN s = 1..Len(s) /\ Len(s) \in Nat /\ Len(s) > 0
          /\ s[1] = Head(s) /\ \A i \in DOMAIN t : t[i] = s[i + 1]
      BY <1>2
    <2> HIDE DEF t
    <2>2. \A i \in DOMAIN s : i = 1 \/ i - 1 \in DOMAIN t
      BY <2>1
    <2>3. \A y : (\E i \in DOMAIN s : s[i] = y) <=> y = Head(s) \/ \E i \in DOMAIN t : t[i] = y
      <3>1. \A i \in DOMAIN t : i + 1 \in DOMAIN s /\ t[i] = s[i + 1]
        BY <2>1
      <3>2. \A i \in DOMAIN s : i = 1 \/ (i - 1 \in DOMAIN t /\ t[i - 1] = s[i])
        BY <2>1, <2>2
      <3>3. 1 \in DOMAIN s /\ s[1] = Head(s)
        BY <2>1
      <3> HIDE <2>1
      <3> QED BY <3>1, <3>2, <3>3
    <2>4. ToSet(s) = {Head(s)} \cup ToSet(t)
      BY <2>3 DEF ToSet
    <2> QED BY <2>1, <2>4 DEF t
  <1>3. ToSet(<<>>) = {} /\ \A x \in S : ToSet(<<x>>) = {x}
    BY DEF ToSet
  <1> QED BY <1>1, <1>2, <1>3

\* The elements of the list that Among leaves.
LEMMA AmongSet ==
  ASSUME NEW T, NEW s \in Seq(T), NEW S
  PROVE  Among(s, S) \in Seq(T) /\ ToSet(Among(s, S)) = ToSet(s) \cap S
  BY AmongElements DEF ToSet

-----------------------------------------------------------------------------
(* Type correctness.                                                         *)

\* A call of add_ann has the one hash it was made for, and peers to send it to as long
\* as it sends.
CallsOK ==
  \A n \in Nodes, c \in Callers :
    /\ caller[n][c].step # "idle" => Len(caller[n][c].hash) = 1
    /\ caller[n][c].step = "send" => caller[n][c].todo # <<>>

LEMMA CallersTyped ==
  ASSUME TypeOK, NEW n \in Nodes, NEW c \in Callers
  PROVE  /\ caller[n][c] \in Calls /\ caller[n][c].hash \in Seq(Hashes)
         /\ caller[n][c].todo \in Seq(Ends)
  <1>1. caller[n][c] \in Calls
    BY DEF TypeOK
  <1> QED BY <1>1, CallTyped

\* A loop over hashes has one to go on with.
TasksOK == \A e \in Ends : task[e].stage \in {"inv", "ask"} => task[e].todo # <<>>

QueueOK == queue \in [Ends -> Seq(Message)] /\ \A e \in Ends : Len(queue[e]) <= QueueSize

\* The awaits that put a message in a queue keep to its bound.
LEMMA QueueStep ==
  ASSUME QueueOK, NEW e \in Ends, NEW m \in Message
  PROVE  /\ Enqueue(e, m) => QueueOK'
         /\ EnqueueUnlessClosed(e, m) => QueueOK'
  <1>1. ASSUME Enqueue(e, m) PROVE QueueOK'
    <2>1. Append(queue[e], m) \in Seq(Message) /\ Len(Append(queue[e], m)) = Len(queue[e]) + 1
      BY ListParts DEF QueueOK
    <2>2. /\ queue' = [queue EXCEPT ![e] = Append(queue[e], m)]
          /\ Len(queue[e]) < QueueSize
      BY <1>1 DEF Enqueue, HasRoom
    <2>3. QueueSize \in Nat /\ \A x \in Ends : queue[x] \in Seq(Message) /\ Len(queue[x]) \in Nat
      BY SizesAssumption DEF QueueOK
    <2>4. queue' \in [Ends -> Seq(Message)]
      BY <2>1, <2>2 DEF QueueOK
    <2>5. ASSUME NEW x \in Ends PROVE Len(queue'[x]) <= QueueSize
      <3>1. CASE x = e
        BY <2>1, <2>2, <2>3, <3>1 DEF QueueOK
      <3>2. CASE x # e
        BY <2>2, <3>2 DEF QueueOK
      <3> QED BY <3>1, <3>2
    <2> QED BY <2>4, <2>5 DEF QueueOK
  <1>2. ASSUME EnqueueUnlessClosed(e, m) PROVE QueueOK'
    BY <1>1, <1>2 DEF EnqueueUnlessClosed, QueueOK
  <1> QED BY <1>1, <1>2

\* Closing a connection keeps the types.
LEMMA ClosedTyped ==
  ASSUME TypeOK, NEW e \in Ends, Closed(e)
  PROVE  /\ task' \in [Ends -> Tasks] /\ QueueOK' /\ peers' \in [Nodes -> Seq(Ends)]
         /\ broken' \in [Conns -> BOOLEAN]
  <1>1. Task("closed", <<>>, NoMsg) \in Tasks
    BY TaskTyped, MessageTyped DEF Stages
  <1>2. task' \in [Ends -> Tasks]
    BY <1>1 DEF TypeOK, Closed
  <1>3. QueueOK'
    <2>1. QueueSize \in Nat
      BY SizesAssumption
    <2> QED BY <2>1 DEF TypeOK, Closed, QueueOK
  <1>4. peers' \in [Nodes -> Seq(Ends)]
    <2>1. NodeOf(e) \in Nodes
      BY EndsTyped
    <2>2. Among(peers[NodeOf(e)], Ends \ {e}) \in Seq(Ends)
      BY <2>1, AmongSet DEF TypeOK
    <2> QED BY <2>2 DEF TypeOK, Closed, Unlisted
  <1>5. broken' \in [Conns -> BOOLEAN]
    BY DEF TypeOK, Closed
  <1> QED BY <1>2, <1>3, <1>4, <1>5

LEMMA InitTyped == Init => TypeOK /\ CallsOK
  <1> SUFFICES ASSUME Init PROVE TypeOK /\ CallsOK
    OBVIOUS
  <1>1. Task("unused", <<>>, NoMsg) \in Tasks
    BY TaskTyped, MessageTyped DEF Stages
  <1>2. Idle \in Calls /\ Idle.step = "idle"
    BY CallTyped DEF Idle, Call
  <1>3. QueueSize \in Nat /\ AnnQueueSize \in Nat /\ WireSize \in Nat
    BY SizesAssumption
  <1>4. TypeOK
    BY <1>1, <1>2, <1>3 DEF Init, TypeOK
  <1>5. CallsOK
    BY <1>2 DEF Init, CallsOK
  <1> QED BY <1>4, <1>5

\* Connecting and greeting.
LEMMA GreetTyped ==
  ASSUME TypeOK, CallsOK,
         \/ \E c \in Conns : Connect(c) \/ Break(c)
         \/ \E e \in Ends : Greet(e)
  PROVE  TypeOK' /\ CallsOK'
  <1>0. CallsOK'
    <2>1. UNCHANGED caller
      BY DEF Connect, Break, Greet, CreatePeer, Hello, HashList, OfferChunk, nodeVars
    <2> QED BY <2>1 DEF CallsOK
  <1>1. ASSUME NEW c \in Conns, Connect(c) PROVE TypeOK'
    <2> DEFINE e == <<c, "Outgoing">>
    <2>1. e \in Ends /\ Other(e) \in Ends /\ NodeOf(e) \in Nodes
      BY EndsTyped DEF Ends
    <2>2. Serving \in Tasks /\ Task("accepted", <<>>, NoMsg) \in Tasks
      BY TaskTyped, MessageTyped DEF Stages
    <2>3. Msg("OLLEH", 0, <<>>) \in Message
      BY MessageTyped
    <2>4. Append(peers[NodeOf(e)], e) \in Seq(Ends)
      BY <2>1, ListParts DEF TypeOK
    <2>5. /\ task' = [task EXCEPT ![e] = Serving, ![Other(e)] = Task("accepted", <<>>, NoMsg)]
          /\ queue' = [queue EXCEPT ![e] = <<Msg("OLLEH", 0, <<>>)>>]
          /\ peers' = [peers EXCEPT ![NodeOf(e)] = Append(peers[NodeOf(e)], e)]
          /\ UNCHANGED <<nodeVars, lag, ping, connVars, history>>
      BY <1>1 DEF Connect
    <2> HIDE DEF e
    <2>6. task' \in [Ends -> Tasks]
      BY <2>1, <2>2, <2>5 DEF TypeOK
    <2>7. queue' \in [Ends -> Seq(Message)] /\ \A x \in Ends : Len(queue'[x]) <= QueueSize
      <3>1. <<Msg("OLLEH", 0, <<>>)>> \in Seq(Message) /\ Len(<<Msg("OLLEH", 0, <<>>)>>) = 1
        BY <2>3
      <3>2. QueueSize \in Nat /\ 1 <= QueueSize
        BY SizesAssumption
      <3> QED BY <2>1, <2>5, <3>1, <3>2 DEF TypeOK
    <2>8. peers' \in [Nodes -> Seq(Ends)]
      BY <2>1, <2>4, <2>5 DEF TypeOK
    <2> QED BY <2>5, <2>6, <2>7, <2>8 DEF TypeOK, nodeVars, connVars, history
  <1>2. ASSUME NEW c \in Conns, Break(c) PROVE TypeOK'
    BY <1>2 DEF TypeOK, Break, nodeVars, listVars, history
  <1>3. ASSUME NEW e \in Ends, CreatePeer(e) PROVE TypeOK'
    <2>1. [task[e] EXCEPT !.stage = "created"] \in Tasks
      BY TaskTyped DEF TypeOK, Stages
    <2>2. NodeOf(e) \in Nodes /\ Append(peers[NodeOf(e)], e) \in Seq(Ends)
      BY EndsTyped, ListParts DEF TypeOK
    <2>3. task' \in [Ends -> Tasks] /\ peers' \in [Nodes -> Seq(Ends)]
      BY <1>3, <2>1, <2>2 DEF TypeOK, CreatePeer
    <2> QED BY <1>3, <2>3 DEF TypeOK, CreatePeer, nodeVars, connVars, history
  <1>4. ASSUME NEW e \in Ends, Hello(e) PROVE TypeOK'
    <2>1. [task[e] EXCEPT !.stage = "greeted"] \in Tasks
      BY TaskTyped DEF TypeOK, Stages
    <2>2. task' \in [Ends -> Tasks]
      BY <1>4, <2>1 DEF TypeOK, Hello
    <2>3. QueueOK'
      <3>1. QueueOK /\ Msg("HELLO", 0, <<>>) \in Message
        BY MessageTyped DEF TypeOK, QueueOK
      <3> QED BY <1>4, <3>1, QueueStep DEF Hello
    <2> QED BY <1>4, <2>2, <2>3 DEF TypeOK, Hello, QueueOK, nodeVars, listVars, connVars, history
  <1>5. ASSUME NEW e \in Ends, HashList(e) PROVE TypeOK'
    <2>1. NodeOf(e) \in Nodes
      BY EndsTyped
    <2>2. Continue("inv", anns[NodeOf(e)]) \in Tasks
      BY <2>1, TaskTyped DEF TypeOK, Stages
    <2>3. task' \in [Ends -> Tasks]
      BY <1>5, <2>2 DEF TypeOK, HashList
    <2> QED BY <1>5, <2>3 DEF TypeOK, HashList, nodeVars, listVars, connVars, history
  <1>6. ASSUME NEW e \in Ends, OfferChunk(e) PROVE TypeOK'
    <2> DEFINE todo == task[e].todo
               k == IF Len(todo) < ChunkSize THEN Len(todo) ELSE ChunkSize
               chunk == SubSeq(todo, 1, k)
               rest == SubSeq(todo, k + 1, Len(todo))
    <2>1. todo \in Seq(Hashes)
      BY TaskTyped DEF TypeOK
    <2>2. k \in Nat /\ k <= Len(todo)
      BY <2>1, SizesAssumption
    <2>3. chunk \in Seq(Hashes) /\ rest \in Seq(Hashes)
      BY <2>1, <2>2
    <2>4. /\ Enqueue(e, Msg("INV", 0, chunk))
          /\ offered' = [offered EXCEPT ![e] = offered[e] \cup ToSet(chunk)]
          /\ task' = [task EXCEPT ![e] = Continue("inv", rest)]
          /\ UNCHANGED <<nodeVars, listVars, connVars, cut>>
      BY <1>6 DEF OfferChunk
    <2> HIDE DEF todo, k, chunk, rest
    <2>5. QueueOK'
      BY <2>3, <2>4, QueueStep, MessageTyped DEF TypeOK, QueueOK
    <2>6. task' \in [Ends -> Tasks]
      BY <2>3, <2>4, TaskTyped DEF TypeOK, Stages
    <2>7. offered' \in [Ends -> SUBSET Hashes]
      <3>1. ToSet(chunk) \in SUBSET Hashes
        BY <2>3 DEF ToSet
      <3> QED BY <2>4, <3>1 DEF TypeOK
    <2> QED BY <2>4, <2>5, <2>6, <2>7 DEF TypeOK, QueueOK, nodeVars, listVars, connVars
  <1> QED BY <1>0, <1>1, <1>2, <1>3, <1>4, <1>5, <1>6 DEF Greet

\* Serving the websocket.
LEMMA ServeTyped ==
  ASSUME TypeOK, CallsOK, TasksOK, NEW e \in Ends,
         Serve(e) \/ Recv(e) \/ Read(e) \/ Fail(e)
  PROVE  TypeOK' /\ CallsOK'
  <1>0. CallsOK'
    <2>1. UNCHANGED caller
      BY DEF Serve, Write, Ask, Reply, Announce, Recv, Read, Fail, nodeVars
    <2> QED BY <2>1 DEF CallsOK
  <1>a. /\ NodeOf(e) \in Nodes /\ Other(e) \in Ends /\ e[1] \in Conns
    BY EndsTyped
  <1>b. /\ task[e] \in Tasks /\ task[e].todo \in Seq(Hashes) /\ task[e].out \in Message
        /\ task[e].out.body \in Seq(Hashes) /\ task[e].out.id \in Nat
    BY TaskTyped, MessageTyped DEF TypeOK
  <1>c. Serving \in Tasks
    BY TaskTyped
  <1>1. ASSUME Write(e) PROVE TypeOK'
    <2>1. /\ Append(wire[e], task[e].out) \in Seq(Message)
          /\ Len(Append(wire[e], task[e].out)) = Len(wire[e]) + 1
      BY <1>b, ListParts DEF TypeOK
    <2>2. WireSize \in Nat /\ wire[e] \in Seq(Message) /\ Len(wire[e]) \in Nat
      BY SizesAssumption DEF TypeOK
    <2>3. wire' \in [Ends -> Seq(Message)]
      BY <1>1, <2>1 DEF Write, TypeOK
    <2>4. \A x \in Ends : Len(wire'[x]) <= WireSize
      BY <1>1, <2>1, <2>2 DEF Write, TypeOK
    <2>5. task' \in [Ends -> Tasks]
      BY <1>1, <1>c DEF Write, TypeOK
    <2> QED BY <1>1, <2>3, <2>4, <2>5 DEF Write, TypeOK, nodeVars, listVars, history
  <1>2. ASSUME Ask(e) PROVE TypeOK'
    <2> DEFINE hash == Head(task[e].todo)
               rest == Tail(task[e].todo)
               n == NodeOf(e)
    <2>0. n \in Nodes /\ msgId[n] \in Nat
      BY <1>a DEF TypeOK
    <2>1. /\ UNCHANGED <<nodeVars, listVars, queue, wire, broken, strayed, history>>
          /\ \/ /\ task' = [task EXCEPT ![e] = Continue("ask", rest)]
                /\ UNCHANGED <<reqs, msgId>>
             \/ /\ msgId' = [msgId EXCEPT ![n] = msgId[n] + 1]
                /\ reqs' = [reqs EXCEPT ![e] = reqs[e] \cup {msgId[n]}]
                /\ task' = [task EXCEPT ![e] = Task("reply", rest, Msg("GET_DATA", msgId[n], <<hash>>))]
      BY <1>2 DEF Ask
    <2>2. task[e].todo # <<>>
      BY <1>2 DEF Ask, TasksOK
    <2>3. hash \in Hashes /\ rest \in Seq(Hashes)
      BY <1>b, <2>2, ListParts
    <2> HIDE DEF hash, rest, n
    <2>4. Msg("GET_DATA", msgId[n], <<hash>>) \in Message
      <3>1. <<hash>> \in Seq(Hashes)
        BY <2>3
      <3> QED BY <2>0, <3>1, MessageTyped
    <2>5. /\ Continue("ask", rest) \in Tasks
          /\ Task("reply", rest, Msg("GET_DATA", msgId[n], <<hash>>)) \in Tasks
      BY <2>3, <2>4, TaskTyped DEF Stages
    <2>6. task' \in [Ends -> Tasks]
      BY <2>1, <2>5 DEF TypeOK
    <2>7. reqs' \in [Ends -> SUBSET Nat] /\ msgId' \in [Nodes -> Nat]
      <3>1. reqs[e] \cup {msgId[n]} \in SUBSET Nat /\ msgId[n] + 1 \in Nat
        BY <2>0 DEF TypeOK
      <3>2. /\ [reqs EXCEPT ![e] = reqs[e] \cup {msgId[n]}] \in [Ends -> SUBSET Nat]
            /\ [msgId EXCEPT ![n] = msgId[n] + 1] \in [Nodes -> Nat]
        BY <2>0, <3>1 DEF TypeOK
      <3> QED BY <2>1, <3>2 DEF TypeOK
    <2> QED BY <2>1, <2>6, <2>7 DEF TypeOK, nodeVars, listVars, history
  <1>3. ASSUME Reply(e) PROVE TypeOK'
    <2>1. QueueOK'
      BY <1>3, <1>b, QueueStep DEF Reply, TypeOK, QueueOK
    <2>2. Continue("ask", task[e].todo) \in Tasks
      BY <1>b, TaskTyped DEF Stages
    <2>3. task' \in [Ends -> Tasks]
      BY <1>3, <2>2 DEF Reply, TypeOK
    <2> QED BY <1>3, <2>1, <2>3 DEF Reply, TypeOK, QueueOK, nodeVars, listVars, connVars, history
  <1>4. ASSUME Announce(e) PROVE TypeOK'
    <2> DEFINE n == NodeOf(e)
    <2>1. /\ n \in Nodes /\ annQueue[n] \in Seq(Seq(Hashes)) /\ AnnQueueSize \in Nat
          /\ Len(annQueue[n]) \in Nat
      BY <1>a, SizesAssumption DEF TypeOK
    <2>2. /\ Append(annQueue[n], task[e].out.body) \in Seq(Seq(Hashes))
          /\ Len(Append(annQueue[n], task[e].out.body)) = Len(annQueue[n]) + 1
      BY <1>b, <2>1, ListParts
    <2>3. annQueue' = [annQueue EXCEPT ![n] = Append(annQueue[n], task[e].out.body)]
          /\ Len(annQueue[n]) < AnnQueueSize
      BY <1>4 DEF Announce
    <2> HIDE DEF n
    <2>4. annQueue' \in [Nodes -> Seq(Seq(Hashes))] /\ \A x \in Nodes : Len(annQueue'[x]) <= AnnQueueSize
      BY SMTT(30), <2>1, <2>2, <2>3 DEF TypeOK
    <2>5. task' \in [Ends -> Tasks]
      BY <1>4, <1>c DEF Announce, TypeOK
    <2> QED BY <1>4, <2>4, <2>5 DEF Announce, TypeOK, listVars, connVars, history
  <1>5. ASSUME Recv(e) PROVE TypeOK'
    <2>1. /\ Head(queue[e]) \in Message /\ Tail(queue[e]) \in Seq(Message)
          /\ Len(Tail(queue[e])) = Len(queue[e]) - 1 /\ Len(queue[e]) \in Nat
      BY <1>5, ListParts DEF TypeOK, Recv
    <2>2. Task("write", <<>>, Head(queue[e])) \in Tasks
      BY <2>1, TaskTyped DEF Stages
    <2>3. task' \in [Ends -> Tasks] /\ queue' \in [Ends -> Seq(Message)]
      BY <1>5, <2>1, <2>2 DEF Recv, TypeOK
    <2>4. \A x \in Ends : Len(queue'[x]) <= QueueSize
      BY <1>5, <2>1, SizesAssumption DEF Recv, TypeOK
    <2> QED BY <1>5, <2>3, <2>4 DEF Recv, TypeOK, nodeVars, listVars, connVars, history
  <1>6. ASSUME Read(e) PROVE TypeOK'
    <2> DEFINE o == Other(e)
               m == Head(wire[o])
    <2>1. wire[o] \in Seq(Message) /\ wire[o] # <<>> /\ Len(wire[o]) <= WireSize
      BY <1>6, <1>a DEF Read, TypeOK
    <2>2. /\ m \in Message /\ Tail(wire[o]) \in Seq(Message) /\ Len(Tail(wire[o])) = Len(wire[o]) - 1
          /\ Len(wire[o]) \in Nat
      BY <2>1, ListParts
    <2>3. /\ wire' = [wire EXCEPT ![o] = Tail(wire[o])] /\ lag' = [lag EXCEPT ![e] = 0]
          /\ UNCHANGED <<nodeVars, ping, msgId, strayed, history>>
          /\ \/ HandleHello(e, m) \/ HandleGetData(e, m) \/ HandlePing(e, m)
             \/ HandleAck(e, m) \/ HandleInv(e, m) \/ HandleData(e, m)
      BY <1>6 DEF Read
    <2>4. m.id \in Nat /\ m.body \in Seq(Hashes)
      BY <2>2, MessageTyped
    <2> HIDE DEF m, o
    <2>5. wire' \in [Ends -> Seq(Message)] /\ \A x \in Ends : Len(wire'[x]) <= WireSize
      <3>1. /\ wire \in [Ends -> Seq(Message)] /\ \A x \in Ends : Len(wire[x]) <= WireSize
            /\ wire' = [wire EXCEPT ![o] = Tail(wire[o])]
        BY <2>3 DEF TypeOK
      <3>2. o \in Ends
        BY <1>a DEF o
      <3>3. Len(Tail(wire[o])) <= WireSize
        BY <2>1, <2>2, SizesAssumption
      <3>4. Tail(wire[o]) \in Seq(Message)
        BY <2>2
      <3> QED BY <3>1, <3>2, <3>3, <3>4
    <2>6. \/ Closed(e)
          \/ \E next \in Tasks : Goes(e, next)
      <3>1. CASE HandleHello(e, m)
        BY <1>c, <3>1 DEF HandleHello
      <3>2. CASE HandleGetData(e, m)
        <4>1. Among(m.body, ToSet(anns[NodeOf(e)])) \in Seq(Hashes)
          BY <2>4, AmongSet
        <4>2. Msg("DATA", m.id, Among(m.body, ToSet(anns[NodeOf(e)]))) \in Message
          BY <2>4, <4>1, MessageTyped
        <4>3. Task("reply", <<>>, Msg("DATA", m.id, Among(m.body, ToSet(anns[NodeOf(e)])))) \in Tasks
          BY <4>2, TaskTyped DEF Stages
        <4> QED BY <3>2, <4>3 DEF HandleGetData
      <3>3. CASE HandlePing(e, m)
        <4>1. Msg("ACK", m.id, <<>>) \in Message
          BY <2>4, MessageTyped
        <4>2. Task("reply", <<>>, Msg("ACK", m.id, <<>>)) \in Tasks
          BY <4>1, TaskTyped DEF Stages
        <4> QED BY <3>3, <4>2 DEF HandlePing
      <3>4. CASE HandleAck(e, m)
        BY <1>c, <3>4 DEF HandleAck
      <3>5. CASE HandleInv(e, m)
        <4>1. Continue("ask", m.body) \in Tasks
          BY <2>4, TaskTyped DEF Stages
        <4> QED BY <1>c, <3>5, <4>1 DEF HandleInv
      <3>6. CASE HandleData(e, m)
        <4>1. Task("announce", <<>>, m) \in Tasks
          BY <2>2, TaskTyped DEF Stages, m
        <4> QED BY <1>c, <3>6, <4>1 DEF HandleData
      <3> QED BY <2>3, <3>1, <3>2, <3>3, <3>4, <3>5, <3>6
    <2>7. reqs' \in [Ends -> SUBSET Nat]
      BY <2>3 DEF TypeOK, HandleHello, HandleGetData, HandlePing, HandleAck, HandleInv, HandleData
    <2>8. /\ task' \in [Ends -> Tasks] /\ QueueOK' /\ peers' \in [Nodes -> Seq(Ends)]
          /\ broken' \in [Conns -> BOOLEAN]
      <3>1. CASE Closed(e)
        BY <3>1, ClosedTyped
      <3>2. ASSUME NEW next \in Tasks, Goes(e, next)
            PROVE  /\ task' \in [Ends -> Tasks] /\ QueueOK' /\ peers' \in [Nodes -> Seq(Ends)]
                   /\ broken' \in [Conns -> BOOLEAN]
        BY <3>2 DEF Goes, TypeOK, QueueOK
      <3> QED BY <2>6, <3>1, <3>2
    <2>9. lag' \in [Ends -> Nat]
      BY <2>3 DEF TypeOK
    <2> QED BY <2>3, <2>5, <2>7, <2>8, <2>9 DEF TypeOK, QueueOK, nodeVars, history
  <1>7. ASSUME Fail(e) PROVE TypeOK'
    <2>1. /\ task' \in [Ends -> Tasks] /\ QueueOK' /\ peers' \in [Nodes -> Seq(Ends)]
          /\ broken' \in [Conns -> BOOLEAN]
      BY <1>7, ClosedTyped DEF Fail
    <2>2. wire' \in [Ends -> Seq(Message)] /\ \A x \in Ends : Len(wire'[x]) <= WireSize
      <3>1. WireSize \in Nat /\ <<>> \in Seq(Message)
        BY SizesAssumption
      <3>2. wire' = [wire EXCEPT ![Other(e)] = <<>>]
        BY <1>7 DEF Fail
      <3>3. wire' \in [Ends -> Seq(Message)]
        BY <3>1, <3>2 DEF TypeOK
      <3>4. ASSUME NEW x \in Ends PROVE wire'[x] = <<>> \/ wire'[x] = wire[x]
        BY <3>2 DEF TypeOK
      <3> QED BY <3>1, <3>3, <3>4 DEF TypeOK
    <2> QED BY <1>7, <2>1, <2>2 DEF Fail, TypeOK, QueueOK, nodeVars, history
  <1> QED BY <1>0, <1>1, <1>2, <1>3, <1>4, <1>5, <1>6, <1>7 DEF Serve

\* The tasks that handle announcements.
LEMMA HandleTyped ==
  ASSUME TypeOK, CallsOK,
         NEW n \in Nodes, NEW c \in Callers, NEW hash \in Hashes, Handle(n, c, hash)
  PROVE  anns' \in [Nodes -> Seq(Hashes)] /\ caller' \in [Nodes -> [Callers -> Calls]] /\ CallsOK'
  <1>1. CASE UNCHANGED <<anns, caller>>
    BY <1>1 DEF TypeOK, CallsOK
  <1>2. CASE ~UNCHANGED <<anns, caller>>
    <2> DEFINE left == Among(anns[n], { older \in Hashes : <<hash, older>> \notin Supersedes })
               call == Call("add", <<hash>>, <<>>)
    <2>1. anns' = [anns EXCEPT ![n] = left] /\ caller' = [caller EXCEPT ![n][c] = call]
      BY <1>2 DEF Handle
    <2>2. left \in Seq(Hashes)
      BY AmongSet DEF TypeOK
    <2>3. call \in Calls /\ call.step = "add" /\ Len(call.hash) = 1
      <3>1. <<hash>> \in Seq(Hashes) /\ <<>> \in Seq(Ends) /\ Len(<<hash>>) = 1
        OBVIOUS
      <3> QED BY <3>1, CallTyped DEF Call
    <2> HIDE DEF left, call
    <2>4. anns' \in [Nodes -> Seq(Hashes)] /\ caller' \in [Nodes -> [Callers -> Calls]]
      BY <2>1, <2>2, <2>3 DEF TypeOK
    <2>5. CallsOK'
      BY <2>1, <2>3 DEF CallsOK, TypeOK
    <2> QED BY <2>4, <2>5
  <1> QED BY <1>1, <1>2

LEMMA AnnouncementsTyped ==
  ASSUME TypeOK, CallsOK, NEW n \in Nodes,
         \/ HandleGossip(n) \/ CancelService(n)
         \/ \E hash \in Hashes : HandleService(n, hash)
         \/ \E c \in Callers : AddAnnStep(n, c)
  PROVE  TypeOK' /\ CallsOK'
  <1>1. CASE HandleGossip(n)
    <2>1. annQueue[n] \in Seq(Seq(Hashes)) /\ annQueue[n] # <<>> /\ Len(annQueue[n]) <= AnnQueueSize
      BY <1>1 DEF HandleGossip, TypeOK
    <2>2. /\ Head(annQueue[n]) \in Seq(Hashes) /\ Tail(annQueue[n]) \in Seq(Seq(Hashes))
          /\ Len(Tail(annQueue[n])) = Len(annQueue[n]) - 1 /\ Len(annQueue[n]) \in Nat
      BY <2>1, ListParts
    <2>3. annQueue' = [annQueue EXCEPT ![n] = Tail(annQueue[n])]
      BY <1>1 DEF HandleGossip
    <2>4. annQueue' \in [Nodes -> Seq(Seq(Hashes))] /\ \A x \in Nodes : Len(annQueue'[x]) <= AnnQueueSize
      BY <2>1, <2>2, <2>3, SizesAssumption DEF TypeOK
    <2>5. anns' \in [Nodes -> Seq(Hashes)] /\ caller' \in [Nodes -> [Callers -> Calls]] /\ CallsOK'
      <3>1. CASE UNCHANGED <<anns, caller>>
        BY <3>1 DEF TypeOK, CallsOK
      <3>2. CASE Head(annQueue[n]) # <<>> /\ Handle(n, "gossip", Head(annQueue[n])[1])
        <4>1. Head(annQueue[n])[1] \in Hashes
          BY <2>2, <3>2
        <4> QED BY <3>2, <4>1, HandleTyped DEF Callers
      <3> QED BY <1>1, <3>1, <3>2 DEF HandleGossip
    <2> QED BY <1>1, <2>4, <2>5 DEF HandleGossip, TypeOK, listVars, connVars, history
  <1>2. ASSUME NEW hash \in Hashes, HandleService(n, hash) PROVE TypeOK' /\ CallsOK'
    <2>1. anns' \in [Nodes -> Seq(Hashes)] /\ caller' \in [Nodes -> [Callers -> Calls]] /\ CallsOK'
      BY <1>2, HandleTyped DEF HandleService, Callers
    <2>2. announced' \in SUBSET Hashes
      BY <1>2 DEF HandleService, TypeOK
    <2> QED BY <1>2, <2>1, <2>2 DEF HandleService, TypeOK, listVars, connVars, history
  <1>3. ASSUME NEW c \in Callers, AddAnn(n, c) PROVE TypeOK' /\ CallsOK'
    <2> DEFINE call == caller[n][c]
    <2>1. call \in Calls /\ call.hash \in Seq(Hashes) /\ Len(call.hash) = 1 /\ call.hash[1] \in Hashes
      <3>1. call \in Calls /\ call.hash \in Seq(Hashes)
        BY CallersTyped
      <3>2. Len(call.hash) = 1
        BY <1>3 DEF AddAnn, CallsOK
      <3> QED BY <3>1, <3>2
    <2>2. /\ UNCHANGED <<annQueue, announced, listVars, task, queue, connVars, history>>
          /\ \/ caller' = [caller EXCEPT ![n][c] = Idle] /\ UNCHANGED anns
             \/ /\ anns' = [anns EXCEPT ![n] = Append(anns[n], call.hash[1])]
                /\ caller' = [caller EXCEPT ![n][c] = [call EXCEPT !.step = "list"]]
      <3>1. [caller EXCEPT ![n][c].step = "list"] = [caller EXCEPT ![n][c] = [call EXCEPT !.step = "list"]]
        OBVIOUS
      <3> QED BY <1>3, <3>1 DEF AddAnn
    <2>3. Append(anns[n], call.hash[1]) \in Seq(Hashes)
      BY <2>1, ListParts DEF TypeOK
    <2>4. anns' \in [Nodes -> Seq(Hashes)]
      BY <2>2, <2>3 DEF TypeOK
    <2>5. /\ Idle \in Calls /\ Idle.step = "idle"
          /\ [call EXCEPT !.step = "list"] \in Calls
          /\ [call EXCEPT !.step = "list"].step = "list" /\ [call EXCEPT !.step = "list"].hash = call.hash
      <3>1. [call EXCEPT !.step = "list"] \in Calls
        BY <2>1, CallTyped
      <3> QED BY <2>1, <3>1, CallTyped DEF Idle, Call, Calls
    <2> HIDE DEF call
    <2>6. caller' \in [Nodes -> [Callers -> Calls]] /\ CallsOK'
      <3>1. ASSUME NEW k \in Calls, caller' = [caller EXCEPT ![n][c] = k],
                   k.step = "idle" \/ (k.step = "list" /\ Len(k.hash) = 1)
            PROVE  caller' \in [Nodes -> [Callers -> Calls]] /\ CallsOK'
        BY <3>1 DEF TypeOK, CallsOK
      <3> QED BY <2>1, <2>2, <2>5, <3>1
    <2> QED BY <2>2, <2>4, <2>6 DEF TypeOK, listVars, connVars, history
  <1>4. ASSUME NEW c \in Callers, ListPeers(n, c) \/ SendInv(n, c) \/ CancelService(n)
        PROVE  caller' \in [Nodes -> [Callers -> Calls]] /\ CallsOK'
    <2>1. ASSUME NEW d \in Callers, NEW todo \in Seq(Ends), caller[n][d].step # "idle",
                 caller' = [caller EXCEPT ![n][d] = Sending(caller[n][d].hash, todo)]
          PROVE  caller' \in [Nodes -> [Callers -> Calls]] /\ CallsOK'
      <3>1. caller[n][d].hash \in Seq(Hashes) /\ Len(caller[n][d].hash) = 1
        BY <2>1, CallersTyped DEF CallsOK
      <3> DEFINE k == Sending(caller[n][d].hash, todo)
      <3>2. k \in Calls /\ (k.step = "idle" \/ (k.step = "send" /\ Len(k.hash) = 1 /\ k.todo # <<>>))
        <4>1. k \in Calls
          BY <3>1, CallTyped
        <4> QED BY <3>1, <4>1 DEF Sending, Call, Idle
      <3> HIDE DEF k
      <3> QED BY <2>1, <3>2 DEF TypeOK, CallsOK, k
    <2>2. CASE ListPeers(n, c)
      <3>1. Among(peers[n], Conns \X {"Incoming"}) \in Seq(Ends)
        BY AmongSet DEF TypeOK
      <3>2. /\ caller[n][c].step = "list"
            /\ caller' = [caller EXCEPT ![n][c] =
                  Sending(caller[n][c].hash, Among(peers[n], Conns \X {"Incoming"}))]
        BY <2>2 DEF ListPeers
      <3> QED BY <2>1, <3>1, <3>2
    <2>3. CASE SendInv(n, c)
      <3>1. caller[n][c].step = "send" /\ caller[n][c].todo # <<>> /\ caller[n][c].todo \in Seq(Ends)
        BY <2>3, CallersTyped DEF SendInv, CallsOK
      <3>2. Tail(caller[n][c].todo) \in Seq(Ends)
        BY <3>1, ListParts
      <3>3. caller' = [caller EXCEPT ![n][c] = Sending(caller[n][c].hash, Tail(caller[n][c].todo))]
        BY <2>3 DEF SendInv
      <3> QED BY <2>1, <3>1, <3>2, <3>3
    <2>4. CASE CancelService(n)
      <3>1. caller' = [caller EXCEPT ![n]["service"] = Idle]
        BY <2>4 DEF CancelService
      <3>2. Idle \in Calls /\ Idle.step = "idle"
        BY CallTyped DEF Idle, Call
      <3> QED BY <3>1, <3>2 DEF TypeOK, CallsOK, Callers
    <2> QED BY <1>4, <2>2, <2>3, <2>4
  <1>5. ASSUME NEW c \in Callers, ListPeers(n, c) PROVE TypeOK' /\ CallsOK'
    BY <1>4, <1>5 DEF ListPeers, TypeOK, listVars, connVars, history
  <1>6. ASSUME NEW c \in Callers, SendInv(n, c) PROVE TypeOK' /\ CallsOK'
    <2> DEFINE call == caller[n][c]
               e == Head(call.todo)
    <2>1. /\ call.step = "send" /\ EnqueueUnlessClosed(e, Msg("INV", 0, call.hash))
          /\ offered' = [offered EXCEPT ![e] = offered[e] \cup ToSet(call.hash)]
          /\ UNCHANGED <<anns, annQueue, announced, listVars, task, connVars, cut>>
      BY <1>6 DEF SendInv
    <2>2. call.hash \in Seq(Hashes) /\ call.todo \in Seq(Ends) /\ call.todo # <<>>
      BY <2>1, CallersTyped DEF CallsOK
    <2>3. e \in Ends
      BY <2>2, ListParts
    <2> HIDE DEF call, e
    <2>4. QueueOK'
      <3>1. Msg("INV", 0, call.hash) \in Message /\ QueueOK
        BY <2>2, MessageTyped DEF TypeOK, QueueOK
      <3> QED BY <2>1, <2>3, <3>1, QueueStep
    <2>5. offered' \in [Ends -> SUBSET Hashes]
      <3>1. ToSet(call.hash) \in SUBSET Hashes
        BY <2>2 DEF ToSet
      <3> QED BY <2>1, <3>1 DEF TypeOK
    <2> QED BY <1>4, <1>6, <2>1, <2>4, <2>5 DEF TypeOK, QueueOK, listVars, connVars
  <1>7. CASE CancelService(n)
    <2>1. "service" \in Callers
      BY DEF Callers
    <2>2. caller' \in [Nodes -> [Callers -> Calls]] /\ CallsOK'
      BY <1>4, <1>7, <2>1
    <2>3. cut' \in SUBSET Hashes
      <3>1. caller[n]["service"].hash \in Seq(Hashes)
        BY <2>1, CallersTyped
      <3>2. ToSet(caller[n]["service"].hash) \in SUBSET Hashes
        BY <3>1 DEF ToSet
      <3> QED BY <1>7, <3>2 DEF CancelService, TypeOK
    <2> QED BY <1>7, <2>2, <2>3 DEF CancelService, TypeOK, listVars, connVars
  <1> QED BY <1>1, <1>2, <1>3, <1>5, <1>6, <1>7 DEF AddAnnStep

\* The ping task and the strays.
LEMMA PingTyped ==
  ASSUME TypeOK, CallsOK, NEW n \in Nodes, DoPings(n) \/ PingStep(n)
  PROVE  TypeOK' /\ CallsOK'
  <1>0. CallsOK'
    <2>1. UNCHANGED caller
      BY DEF DoPings, PingStep, PingPeer, DropPeer, nodeVars
    <2> QED BY <2>1 DEF CallsOK
  <1>1. peers[n] \in Seq(Ends) /\ ping[n].ping \in Seq(Ends) /\ ping[n].drop \in Seq(Ends)
        /\ ping[n] \in [ping : Seq(Ends), drop : Seq(Ends)]
    BY DEF TypeOK
  <1>2. CASE DoPings(n)
    <2>1. PICK d \in 1..MaxLag[n] :
            LET After(e) == IF lag[e] + d > MaxLag[n] THEN MaxLag[n] ELSE lag[e] + d
            IN  /\ lag' = [e \in Ends |-> IF e \in ToSet(peers[n]) THEN After(e) ELSE lag[e]]
                /\ ping' = [ping EXCEPT ![n] =
                     [ping |-> Among(peers[n], { e \in Ends : PingAfter < After(e) /\ After(e) <= DropAfter }),
                      drop |-> Among(peers[n], { e \in Ends : DropAfter < After(e) })]]
      BY <1>2 DEF DoPings
    <2>2. MaxLag[n] \in Nat /\ d \in Nat
      BY TimesAssumption
    <2>3. lag' \in [Ends -> Nat]
      <3>1. \A e \in Ends : lag[e] \in Nat /\ lag[e] + d \in Nat
        BY <2>2 DEF TypeOK
      <3> QED BY <2>1, <2>2, <3>1
    <2>4. \A S, T : [ping |-> Among(peers[n], S), drop |-> Among(peers[n], T)]
                      \in [ping : Seq(Ends), drop : Seq(Ends)]
      BY <1>1, AmongSet
    <2>5. ping' \in [Nodes -> [ping : Seq(Ends), drop : Seq(Ends)]]
      BY <2>1, <2>4 DEF TypeOK
    <2> QED BY <1>0, <1>2, <2>3, <2>5 DEF DoPings, TypeOK, nodeVars, connVars, history
  <1>3. CASE PingPeer(n)
    <2>1. ping[n].ping # <<>>
      BY <1>3 DEF PingPeer
    <2>2. Head(ping[n].ping) \in Ends /\ Tail(ping[n].ping) \in Seq(Ends)
      BY <1>1, <2>1, ListParts
    <2>3. QueueOK'
      <3>1. Msg("PING", 0, <<>>) \in Message /\ QueueOK
        BY MessageTyped DEF TypeOK, QueueOK
      <3> QED BY <1>3, <2>2, <3>1, QueueStep DEF PingPeer
    <2>4. ping' \in [Nodes -> [ping : Seq(Ends), drop : Seq(Ends)]]
      BY <1>1, <1>3, <2>2 DEF PingPeer, TypeOK
    <2> QED BY <1>0, <1>3, <2>3, <2>4 DEF PingPeer, TypeOK, QueueOK, nodeVars, connVars, history
  <1>4. CASE DropPeer(n)
    <2> DEFINE e == Head(ping[n].drop)
    <2>1. ping[n].drop # <<>>
      BY <1>4 DEF DropPeer
    <2>2. e \in Ends /\ Tail(ping[n].drop) \in Seq(Ends)
      BY <1>1, <2>1, ListParts
    <2>3. NodeOf(e) \in Nodes
      BY <2>2, EndsTyped
    <2>4. peers' = [peers EXCEPT ![NodeOf(e)] = Among(peers[NodeOf(e)], Ends \ {e})]
      BY <1>4 DEF DropPeer, Unlisted
    <2> HIDE DEF e
    <2>5. Among(peers[NodeOf(e)], Ends \ {e}) \in Seq(Ends)
      BY <2>3, AmongSet DEF TypeOK
    <2>6. peers' \in [Nodes -> Seq(Ends)]
      BY <2>3, <2>4, <2>5 DEF TypeOK
    <2>7. ping' \in [Nodes -> [ping : Seq(Ends), drop : Seq(Ends)]]
      BY <1>1, <1>4, <2>2 DEF DropPeer, TypeOK
    <2> QED BY <1>0, <1>4, <2>6, <2>7 DEF DropPeer, TypeOK, nodeVars, connVars, history
  <1> QED BY <1>0, <1>2, <1>3, <1>4 DEF PingStep

LEMMA StrayTyped ==
  ASSUME TypeOK, CallsOK, NEW s \in Strays, Stray(s)
  PROVE  TypeOK' /\ CallsOK'
  <1>1. s.end \in Ends /\ s.msg \in Message
    BY PeersAssumption
  <1>2. /\ Append(wire[s.end], s.msg) \in Seq(Message)
        /\ Len(Append(wire[s.end], s.msg)) = Len(wire[s.end]) + 1
        /\ WireSize \in Nat /\ Len(wire[s.end]) \in Nat /\ Len(wire[s.end]) < WireSize
    BY <1>1, ListParts, SizesAssumption DEF TypeOK, Stray
  <1>3. wire' = [wire EXCEPT ![s.end] = Append(wire[s.end], s.msg)]
    BY DEF Stray
  <1>4. wire' \in [Ends -> Seq(Message)] /\ \A e \in Ends : Len(wire'[e]) <= WireSize
    BY <1>1, <1>2, <1>3 DEF TypeOK
  <1>5. strayed' \in SUBSET Strays
    BY DEF Stray, TypeOK
  <1>6. TypeOK'
    BY <1>4, <1>5 DEF Stray, TypeOK, nodeVars, listVars, history
  <1>7. CallsOK'
    BY DEF Stray, CallsOK, nodeVars
  <1> QED BY <1>6, <1>7

\* A loop over hashes goes on only while it has hashes.
LEMMA TasksStep ==
  ASSUME TypeOK, TasksOK, [Next]_vars
  PROVE  TasksOK'
  <1> DEFINE Fine(t) == t.stage \in {"inv", "ask"} => t.todo # <<>>
  <1>1. ASSUME NEW e \in Ends, NEW t, Fine(t), task' = [task EXCEPT ![e] = t] PROVE TasksOK'
    BY <1>1 DEF TasksOK, TypeOK
  <1>2. /\ \A stage, todo : Fine(Continue(stage, todo))
        /\ \A stage, todo, out : stage \notin {"inv", "ask"} => Fine(Task(stage, todo, out))
        /\ Fine(Serving)
    BY DEF Continue, Task, Serving
  <1>3. CASE UNCHANGED task
    BY <1>3 DEF TasksOK
  <1>4. ASSUME NEW c \in Conns, Connect(c) PROVE TasksOK'
    <2>1. <<c, "Outgoing">> \in Ends /\ Other(<<c, "Outgoing">>) \in Ends
      BY EndsTyped DEF Ends
    <2> HIDE DEF Fine
    <2>2. Fine(Serving) /\ Fine(Task("accepted", <<>>, NoMsg))
      BY <1>2
    <2> USE DEF Fine
    <2> QED BY <1>4, <2>1, <2>2 DEF Connect, TasksOK, TypeOK
  <1>5. ASSUME NEW e \in Ends, Greet(e) PROVE TasksOK'
    <2>1. ASSUME NEW stage, stage \in Stages \ {"inv", "ask"}, task' = [task EXCEPT ![e].stage = stage]
          PROVE  TasksOK'
      <3>1. task[e] \in Tasks
        BY DEF TypeOK
      <3>2. Fine([task[e] EXCEPT !.stage = stage])
        BY <2>1, <3>1 DEF Tasks
      <3> QED BY <1>1, <2>1, <3>2
    <2>2. CASE CreatePeer(e)
      BY <2>1, <2>2 DEF CreatePeer, Stages
    <2>3. CASE Hello(e)
      BY <2>1, <2>3 DEF Hello, Stages
    <2> HIDE DEF Fine
    <2>4. CASE HashList(e)
      BY <1>1, <1>2, <2>4 DEF HashList
    <2>5. CASE OfferChunk(e)
      BY <1>1, <1>2, <2>5 DEF OfferChunk
    <2> QED BY <1>5, <2>2, <2>3, <2>4, <2>5 DEF Greet
  <1> HIDE DEF Fine
  <1>6. ASSUME NEW e \in Ends, Serve(e) PROVE TasksOK'
    BY <1>1, <1>2, <1>6 DEF Serve, Write, Ask, Reply, Announce
  <1>7. ASSUME NEW e \in Ends, Recv(e) \/ Fail(e) PROVE TasksOK'
    BY <1>1, <1>2, <1>7 DEF Recv, Fail, Closed
  <1>8. ASSUME NEW e \in Ends, Read(e) PROVE TasksOK'
    <2> DEFINE m == Head(wire[Other(e)])
    <2>1. \/ HandleHello(e, m) \/ HandleGetData(e, m) \/ HandlePing(e, m)
          \/ HandleAck(e, m) \/ HandleInv(e, m) \/ HandleData(e, m)
      BY <1>8 DEF Read
    <2> HIDE DEF m
    <2>2. ASSUME NEW t, Fine(t), Goes(e, t) PROVE TasksOK'
      BY <1>1, <2>2 DEF Goes
    <2>3. ASSUME Closed(e) PROVE TasksOK'
      BY <1>1, <1>2, <2>3 DEF Closed
    <2> QED BY <1>2, <2>1, <2>2, <2>3 DEF HandleHello, HandleGetData, HandlePing, HandleAck, HandleInv, HandleData
  <1>9. CASE UNCHANGED vars
    BY <1>3, <1>9 DEF vars
  <1>10. CASE \/ \E c \in Conns : Break(c)
              \/ \E n \in Nodes : HandleGossip(n) \/ CancelService(n) \/ DoPings(n) \/ PingStep(n)
              \/ \E n \in Nodes, hash \in Hashes : HandleService(n, hash)
              \/ \E n \in Nodes, c \in Callers : AddAnnStep(n, c)
              \/ \E s \in Strays : Stray(s)
    BY <1>3, <1>10 DEF Break, HandleGossip, CancelService, DoPings, PingStep, PingPeer, DropPeer,
         HandleService, AddAnnStep, AddAnn, ListPeers, SendInv, Stray
  <1> QED BY <1>4, <1>5, <1>6, <1>7, <1>8, <1>9, <1>10 DEF Next

Typed == TypeOK /\ CallsOK /\ TasksOK

LEMMA TypedStep == Typed /\ [Next]_vars => Typed'
  <1> SUFFICES ASSUME Typed, [Next]_vars PROVE Typed'
    OBVIOUS
  <1>1. TasksOK'
    BY TasksStep DEF Typed
  <1>2. TypeOK' /\ CallsOK'
    <2>1. CASE UNCHANGED vars
      BY <2>1 DEF Typed, TypeOK, CallsOK, vars, nodeVars, listVars, connVars, history
    <2>2. CASE Next
      BY <2>2, GreetTyped, ServeTyped, AnnouncementsTyped, PingTyped, StrayTyped DEF Typed, Next
    <2> QED BY <2>1, <2>2
  <1> QED BY <1>1, <1>2 DEF Typed

\* Every list, queue and task holds what it is for, and no queue of a peer, of the
\* announcements or of the transport outgrows its bound.
THEOREM TypeCorrect == Spec => []TypeOK
  <1>1. Init => Typed
    BY InitTyped DEF Typed, TasksOK, Init, Task
  <1>2. Typed => TypeOK
    BY DEF Typed
  <1> QED BY <1>1, <1>2, TypedStep, PTL DEF Spec

-----------------------------------------------------------------------------
(* Who is listed, and when.                                                  *)

\* An incoming peer is listed by incoming() only, and an end whose other end was never
\* used was not used either.
ListingOK ==
  /\ \A e \in Ends : e[2] = "Incoming" /\ IsListed(e) => task[e].stage \notin {"unused", "accepted"}
  /\ \A c \in Conns : task[<<c, "Outgoing">>].stage = "unused" => task[<<c, "Incoming">>].stage = "unused"

\* Apart from a new connection, a step moves one task that was in use, and leaves it in use.
LEMMA TaskMoves ==
  ASSUME TypeOK, Next
  PROVE  \/ UNCHANGED task
         \/ \E c \in Conns : Connect(c)
         \/ \E e \in Ends :
              /\ task' = [task EXCEPT ![e] = task'[e]]
              /\ task[e].stage # "unused" /\ task'[e].stage \notin {"unused", "accepted"}
  <1> DEFINE Moves(e) == /\ task' = [task EXCEPT ![e] = task'[e]]
                         /\ task[e].stage # "unused" /\ task'[e].stage \notin {"unused", "accepted"}
  <1>1. ASSUME NEW e \in Ends, Greet(e) PROVE Moves(e)
    <2>1. task[e] \in Tasks
      BY DEF TypeOK
    <2>2. CASE CreatePeer(e) \/ Hello(e)
      BY <2>1, <2>2 DEF CreatePeer, Hello, TypeOK, Tasks
    <2>3. CASE HashList(e) \/ OfferChunk(e)
      BY <2>1, <2>3 DEF HashList, OfferChunk, TypeOK, Tasks, Continue, Task
    <2> QED BY <1>1, <2>2, <2>3 DEF Greet
  <1>2. ASSUME NEW e \in Ends, Serve(e) PROVE Moves(e)
    BY <1>2 DEF Serve, Write, Ask, Reply, Announce, TypeOK, Continue, Task, Serving
  <1>3. ASSUME NEW e \in Ends, Recv(e) \/ Fail(e)
        PROVE  Moves(e)
    BY <1>3 DEF Recv, Fail, Closed, TypeOK, Task
  <1>4. ASSUME NEW e \in Ends, Read(e)
        PROVE  Moves(e)
    <2> DEFINE m == Head(wire[Other(e)])
    <2>1. \/ HandleHello(e, m) \/ HandleGetData(e, m) \/ HandlePing(e, m)
          \/ HandleAck(e, m) \/ HandleInv(e, m) \/ HandleData(e, m)
      BY <1>4 DEF Read
    <2>2. task[e].stage = "run"
      BY <1>4 DEF Read
    <2> HIDE DEF m
    <2>3. Closed(e) \/ \E t : Goes(e, t) /\ t.stage \notin {"unused", "accepted"}
      BY <2>1 DEF HandleHello, HandleGetData, HandlePing, HandleAck, HandleInv, HandleData,
           Serving, Continue, Task
    <2> QED BY <2>2, <2>3 DEF Closed, Goes, Task, TypeOK
  <1>5. CASE \E c \in Conns : Connect(c)
    BY <1>5
  <1>6. CASE \E e \in Ends : Greet(e) \/ Serve(e) \/ Recv(e) \/ Read(e) \/ Fail(e)
    <2> HIDE DEF Moves
    <2>1. \E e \in Ends : Moves(e)
      BY <1>1, <1>2, <1>3, <1>4, <1>6
    <2> QED BY <2>1 DEF Moves
  <1>7. CASE \/ \E c \in Conns : Break(c)
             \/ \E n \in Nodes : HandleGossip(n) \/ CancelService(n) \/ DoPings(n) \/ PingStep(n)
             \/ \E n \in Nodes, hash \in Hashes : HandleService(n, hash)
             \/ \E n \in Nodes, c \in Callers : AddAnnStep(n, c)
             \/ \E s \in Strays : Stray(s)
    BY <1>7 DEF Break, HandleGossip, CancelService, DoPings, PingStep, PingPeer, DropPeer,
         HandleService, AddAnnStep, AddAnn, ListPeers, SendInv, Stray
  <1> QED BY <1>5, <1>6, <1>7 DEF Next

\* Only incoming() lists an incoming peer, and taking a peer off the list lists nobody.
LEMMA ListMoves ==
  ASSUME TypeOK, Next, NEW e \in Ends, e[2] = "Incoming", IsListed(e)'
  PROVE  IsListed(e) \/ CreatePeer(e)
  <1> DEFINE n == NodeOf(e)
  <1>0. n \in Nodes /\ peers[n] \in Seq(Ends)
    BY EndsTyped DEF TypeOK
  <1>1. ASSUME UNCHANGED peers PROVE IsListed(e)
    BY <1>1 DEF IsListed
  <1>2. ASSUME NEW x \in Ends, peers' = [peers EXCEPT ![NodeOf(x)] = Append(peers[NodeOf(x)], x)], x # e
        PROVE  IsListed(e)
    <2>1. NodeOf(x) \in Nodes /\ ToSet(Append(peers[NodeOf(x)], x)) = ToSet(peers[NodeOf(x)]) \cup {x}
      BY SMTT(30), EndsTyped, ListParts DEF TypeOK
    <2>2. \/ NodeOf(x) = n /\ peers'[n] = Append(peers[NodeOf(x)], x)
          \/ NodeOf(x) # n /\ peers'[n] = peers[n]
      BY <1>0, <1>2 DEF TypeOK
    <2> QED BY <1>2, <2>1, <2>2 DEF IsListed
  <1>3. ASSUME NEW x \in Ends, peers' = Unlisted(x) PROVE IsListed(e)
    <2>0. NodeOf(x) \in Nodes /\ peers[NodeOf(x)] \in Seq(Ends)
      BY EndsTyped DEF TypeOK
    <2>1. ToSet(Among(peers[NodeOf(x)], Ends \ {x})) = ToSet(peers[NodeOf(x)]) \cap (Ends \ {x})
      BY <2>0, AmongSet
    <2>2. \/ NodeOf(x) = n /\ peers'[n] = Among(peers[NodeOf(x)], Ends \ {x})
          \/ NodeOf(x) # n /\ peers'[n] = peers[n]
      BY <1>0, <1>3, <2>0 DEF TypeOK, Unlisted
    <2> QED BY <2>1, <2>2 DEF IsListed
  <1>4. ASSUME NEW c \in Conns, Connect(c) PROVE IsListed(e)
    <2>1. <<c, "Outgoing">> \in Ends /\ <<c, "Outgoing">> # e
      BY DEF Ends
    <2> QED BY <1>2, <1>4, <2>1 DEF Connect
  <1>5. ASSUME NEW x \in Ends, CreatePeer(x) PROVE IsListed(e) \/ CreatePeer(e)
    <2>1. CASE x # e
      BY <1>2, <1>5, <2>1 DEF CreatePeer
    <2> QED BY <1>5, <2>1
  <1>6. ASSUME NEW x \in Ends, Fail(x) PROVE IsListed(e)
    BY <1>3, <1>6 DEF Fail, Closed
  <1>7. ASSUME NEW x \in Ends, Read(x) PROVE IsListed(e)
    <2> DEFINE m == Head(wire[Other(x)])
    <2>1. \/ HandleHello(x, m) \/ HandleGetData(x, m) \/ HandlePing(x, m)
          \/ HandleAck(x, m) \/ HandleInv(x, m) \/ HandleData(x, m)
      BY <1>7 DEF Read
    <2> HIDE DEF m
    <2>2. Closed(x) \/ UNCHANGED peers
      BY <2>1 DEF HandleHello, HandleGetData, HandlePing, HandleAck, HandleInv, HandleData, Goes
    <2>3. CASE Closed(x)
      <3>1. peers' = Unlisted(x)
        BY <2>3 DEF Closed
      <3> QED BY <1>3, <3>1
    <2>4. CASE UNCHANGED peers
      BY <1>1, <2>4
    <2> QED BY <2>2, <2>3, <2>4
  <1>8. ASSUME NEW k \in Nodes, DropPeer(k) PROVE IsListed(e)
    <2>1. ping[k].drop # <<>> /\ ping[k].drop \in Seq(Ends)
      BY <1>8 DEF DropPeer, TypeOK
    <2>2. Head(ping[k].drop) \in Ends
      BY <2>1, ListParts
    <2> QED BY <1>3, <1>8, <2>2 DEF DropPeer
  <1>9. CASE \/ \E c \in Conns : Break(c)
             \/ \E x \in Ends : Hello(x) \/ HashList(x) \/ OfferChunk(x) \/ Serve(x) \/ Recv(x)
             \/ \E k \in Nodes : HandleGossip(k) \/ CancelService(k) \/ DoPings(k) \/ PingPeer(k)
             \/ \E k \in Nodes, hash \in Hashes : HandleService(k, hash)
             \/ \E k \in Nodes, c \in Callers : AddAnnStep(k, c)
             \/ \E s \in Strays : Stray(s)
    BY <1>1, <1>9 DEF Break, Hello, HashList, OfferChunk, Serve, Write, Ask, Reply, Announce, Recv,
         HandleGossip, CancelService, DoPings, PingPeer, HandleService, AddAnnStep, AddAnn, ListPeers,
         SendInv, Stray, listVars
  <1>10. CASE \E x \in Ends : Greet(x) \/ Serve(x) \/ Recv(x) \/ Read(x) \/ Fail(x)
    BY <1>5, <1>6, <1>7, <1>9, <1>10 DEF Greet
  <1>11. CASE \E k \in Nodes : HandleGossip(k) \/ CancelService(k) \/ DoPings(k) \/ PingStep(k)
    BY <1>8, <1>9, <1>11 DEF PingStep
  <1>12. CASE \E c \in Conns : Connect(c) \/ Break(c)
    BY <1>4, <1>9, <1>12
  <1> QED BY <1>9, <1>10, <1>11, <1>12 DEF Next

LEMMA ListingStep ==
  ASSUME TypeOK, ListingOK, [Next]_vars
  PROVE  ListingOK'
  <1>1. CASE UNCHANGED vars
    <2>1. UNCHANGED <<peers, task>>
      BY <1>1 DEF vars, listVars
    <2> QED BY <2>1 DEF ListingOK, IsListed
  <1>2. ASSUME Next, NEW e \in Ends, e[2] = "Incoming", IsListed(e)'
        PROVE  task'[e].stage \notin {"unused", "accepted"}
    <2>1. CASE CreatePeer(e)
      <3>1. task[e] \in Tasks /\ task' = [task EXCEPT ![e] = [task[e] EXCEPT !.stage = "created"]]
        BY <2>1 DEF CreatePeer, TypeOK
      <3> QED BY <3>1 DEF TypeOK, Tasks
    <2>2. CASE IsListed(e)
      <3>1. task[e].stage \notin {"unused", "accepted"}
        BY <1>2, <2>2 DEF ListingOK
      <3>2. ASSUME NEW c \in Conns, Connect(c) PROVE task'[e] = task[e]
        <4>1. task[<<c, "Outgoing">>].stage = "unused"
          BY <3>2 DEF Connect
        <4>2. e # <<c, "Incoming">> /\ e # <<c, "Outgoing">>
          BY <1>2, <3>1, <4>1 DEF ListingOK
        <4>3. Other(<<c, "Outgoing">>) = <<c, "Incoming">>
          BY DEF Other
        <4> QED BY <3>2, <4>2, <4>3 DEF Connect, TypeOK
      <3> QED BY <1>2, <3>1, <3>2, TaskMoves DEF TypeOK
    <2> QED BY <1>2, <2>1, <2>2, ListMoves
  <1>3. ASSUME Next, NEW c \in Conns, task'[<<c, "Outgoing">>].stage = "unused"
        PROVE  task'[<<c, "Incoming">>].stage = "unused"
    <2> DEFINE o == <<c, "Outgoing">>
               i == <<c, "Incoming">>
    <2>0. o \in Ends /\ i \in Ends /\ o # i
      BY DEF Ends
    <2>1. ASSUME NEW d \in Conns, Connect(d) PROVE task'[o] = task[o] /\ task'[i] = task[i]
      <3>1. Other(<<d, "Outgoing">>) = <<d, "Incoming">> /\ <<d, "Outgoing">> \in Ends /\ <<d, "Incoming">> \in Ends
        BY DEF Other, Ends
      <3>2. CASE d = c
        <4>1. task'[o] = Serving
          BY <2>0, <2>1, <3>1, <3>2 DEF Connect, TypeOK
        <4> QED BY <1>3, <4>1 DEF Serving, Task
      <3>3. CASE d # c
        BY <2>0, <2>1, <3>1, <3>3 DEF Connect, TypeOK
      <3> QED BY <3>2, <3>3
    <2>2. task[o].stage = "unused" => task[i].stage = "unused"
      BY DEF ListingOK
    <2> HIDE DEF o, i
    <2>3. ASSUME NEW e \in Ends, task' = [task EXCEPT ![e] = task'[e]],
                 task[e].stage # "unused", task'[e].stage # "unused"
          PROVE  task'[i].stage = "unused"
      <3>1. e # o
        BY <1>3, <2>0, <2>3 DEF TypeOK, o
      <3>2. task[o].stage = "unused" /\ task'[o] = task[o]
        BY <1>3, <2>0, <2>3, <3>1 DEF TypeOK, o
      <3>3. e # i
        BY <2>2, <2>3, <3>2
      <3> QED BY <2>0, <2>2, <2>3, <3>2, <3>3 DEF TypeOK
    <2>4. CASE UNCHANGED task
      BY <1>3, <2>2, <2>4 DEF o, i
    <2>5. task'[i].stage = "unused"
      BY <1>3, <2>1, <2>2, <2>3, <2>4, TaskMoves DEF o, i
    <2> QED BY <2>5 DEF i
  <1> QED BY <1>1, <1>2, <1>3 DEF ListingOK

-----------------------------------------------------------------------------
(* No hash is missed by a listed peer.                                       *)

\* A hash is offered to e, or about to be.
Cared(e, hash) ==
  \/ hash \in offered[e]
  \/ task[e].stage = "inv" /\ hash \in ToSet(task[e].todo)
  \/ \E c \in Callers :
       /\ caller[NodeOf(e)][c].hash = <<hash>>
       /\ \/ caller[NodeOf(e)][c].step = "list"
          \/ caller[NodeOf(e)][c].step = "send" /\ e \in ToSet(caller[NodeOf(e)][c].todo)

\* Its list of hashes has been copied, and it is still listed.
Served(e) == e[2] = "Incoming" /\ IsListed(e) /\ task[e].stage \notin {"created", "greeted"}

LEMMA MissedNone ==
  NoneMissed <=> \A e \in Ends : Served(e) => \A hash \in ToSet(anns[NodeOf(e)]) \ cut : Cared(e, hash)
  BY DEF NoneMissed, Served, Cared

\* Whatever leaves the hashes and the calls alone, and moves no task into or along its
\* greeting.
LEMMA MissedElsewhere ==
  ASSUME TypeOK, NoneMissed, UNCHANGED <<anns, caller, offered, cut>>,
         \A e \in Ends : Served(e)' => /\ Served(e)
                                       /\ task[e].stage = "inv" => task'[e] = task[e]
  PROVE  NoneMissed'
  <1>1. ASSUME NEW e \in Ends, Served(e)', NEW hash \in ToSet(anns[NodeOf(e)]) \ cut
        PROVE  Cared(e, hash)'
    <2>1. Served(e) /\ (task[e].stage = "inv" => task'[e] = task[e])
      BY <1>1
    <2>2. Cared(e, hash)
      BY <1>1, <2>1, MissedNone
    <2> QED BY <2>1, <2>2 DEF Cared
  <1>2. \A e \in Ends : Served(e)' => \A hash \in ToSet(anns'[NodeOf(e)]) \ cut' : Cared(e, hash)'
    BY <1>1
  <1> QED BY <1>2 DEF NoneMissed, Served, Cared

\* Whatever moves no task of an end at all.
LEMMA MissedCalls ==
  ASSUME NoneMissed, UNCHANGED <<task, peers>>,
         \A e \in Ends : Served(e) => \A hash \in ToSet(anns'[NodeOf(e)]) \ cut' :
           Cared(e, hash)'
  PROVE  NoneMissed'
  <1>1. \A e \in Ends : Served(e)' => Served(e)
    BY DEF Served, IsListed
  <1> QED BY <1>1 DEF NoneMissed, Served, Cared

\* incoming() copies the hashes, then offers the copy piece by piece.
LEMMA MissedGreeting ==
  ASSUME TypeOK, TasksOK, NoneMissed, NEW x \in Ends, HashList(x) \/ OfferChunk(x)
  PROVE  NoneMissed'
  <1>0. UNCHANGED <<anns, caller, cut, peers>>
    BY DEF HashList, OfferChunk, nodeVars, listVars, history
  <1>1. ASSUME NEW e \in Ends, Served(e)', NEW hash \in ToSet(anns[NodeOf(e)]) \ cut
        PROVE  Cared(e, hash)'
    <2>1. CASE e # x
      <3>1. task'[e] = task[e] /\ offered'[e] = offered[e]
        BY <2>1 DEF HashList, OfferChunk, TypeOK, history
      <3>2. Served(e)
        BY <1>0, <1>1, <3>1 DEF Served, IsListed
      <3>3. Cared(e, hash)
        BY <1>1, <3>2, MissedNone
      <3> QED BY <1>0, <3>1, <3>3 DEF Cared
    <2>2. CASE e = x /\ HashList(x)
      <3>1. task'[e] = Continue("inv", anns[NodeOf(e)])
        BY <2>2 DEF HashList, TypeOK
      <3>2. anns[NodeOf(e)] # <<>>
        BY <1>1 DEF ToSet
      <3>3. task'[e].stage = "inv" /\ task'[e].todo = anns[NodeOf(e)]
        BY <3>1, <3>2 DEF Continue, Task
      <3> QED BY <1>1, <3>3 DEF Cared
    <2>3. CASE e = x /\ OfferChunk(x)
      <3> DEFINE todo == task[e].todo
                 k == IF Len(todo) < ChunkSize THEN Len(todo) ELSE ChunkSize
                 chunk == SubSeq(todo, 1, k)
                 rest == SubSeq(todo, k + 1, Len(todo))
      <3>1. todo \in Seq(Hashes)
        BY TaskTyped DEF TypeOK
      <3>2. k \in Nat /\ k <= Len(todo) /\ Len(todo) \in Nat
        BY <3>1, SizesAssumption
      <3>3. /\ task[e].stage = "inv" /\ task'[e] = Continue("inv", rest)
            /\ offered'[e] = offered[e] \cup ToSet(chunk)
        BY <2>3 DEF OfferChunk, TypeOK
      <3> HIDE DEF k
      <3>4. ASSUME hash \in ToSet(todo) PROVE hash \in ToSet(chunk) \/ hash \in ToSet(rest)
        <4>1. PICK i \in 1..Len(todo) : todo[i] = hash
          BY <3>1, <3>4 DEF ToSet
        <4>2. CASE i <= k
          <5>1. i \in DOMAIN chunk /\ chunk[i] = hash
            BY <3>1, <3>2, <4>1, <4>2
          <5> QED BY <5>1 DEF ToSet
        <4>3. CASE i > k
          <5>1. i - k \in DOMAIN rest /\ rest[i - k] = hash
            BY <3>1, <3>2, <4>1, <4>3
          <5> QED BY <5>1 DEF ToSet
        <4> QED BY <3>2, <4>1, <4>2, <4>3
      <3> HIDE DEF todo, chunk, rest
      <3>5. ASSUME hash \in ToSet(rest) PROVE task'[e].stage = "inv" /\ task'[e].todo = rest
        <4>1. rest # <<>>
          BY <3>5 DEF ToSet
        <4> QED BY <3>3, <4>1 DEF Continue, Task
      <3>6. Served(e)
        BY <1>0, <1>1, <3>3 DEF Served, IsListed
      <3>7. Cared(e, hash)
        BY <1>1, <3>6, MissedNone
      <3>8. CASE hash \in ToSet(todo)
        BY <3>3, <3>4, <3>5, <3>8 DEF Cared
      <3>9. CASE hash \notin ToSet(todo)
        BY <1>0, <3>3, <3>7, <3>9 DEF Cared, todo
      <3> QED BY <3>8, <3>9
    <2> QED BY <2>1, <2>2, <2>3
  <1>2. \A e \in Ends : Served(e)' => \A hash \in ToSet(anns'[NodeOf(e)]) \ cut' : Cared(e, hash)'
    BY <1>0, <1>1
  <1> QED BY <1>2 DEF NoneMissed, Served, Cared

\* An announcement taken in hand withdraws others, and its add_ann cares for none yet.
LEMMA MissedHandle ==
  ASSUME TypeOK, NoneMissed, UNCHANGED <<task, peers, offered, cut>>,
         NEW n \in Nodes, NEW c \in Callers, NEW hash \in Hashes,
         caller[n][c].step = "idle", Handle(n, c, hash)
  PROVE  NoneMissed'
  <1> DEFINE left == Among(anns[n], { older \in Hashes : <<hash, older>> \notin Supersedes })
             call == Call("add", <<hash>>, <<>>)
  <1>1. ASSUME NEW e \in Ends, Served(e), NEW h \in ToSet(anns'[NodeOf(e)]) \ cut'
        PROVE  Cared(e, h)'
    <2>0. NodeOf(e) \in Nodes
      BY EndsTyped
    <2>1. CASE UNCHANGED <<anns, caller>>
      BY <1>1, <2>1, MissedNone DEF Cared
    <2>2. CASE anns' = [anns EXCEPT ![n] = left] /\ caller' = [caller EXCEPT ![n][c] = call]
      <3>1. ToSet(left) \in SUBSET ToSet(anns[n])
        BY AmongSet DEF TypeOK
      <3> HIDE DEF left
      <3>2. h \in ToSet(anns[NodeOf(e)]) \ cut
        <4>1. CASE NodeOf(e) = n
          BY <1>1, <2>0, <2>2, <3>1, <4>1 DEF TypeOK
        <4>2. CASE NodeOf(e) # n
          BY <1>1, <2>0, <2>2, <4>2 DEF TypeOK
        <4> QED BY <4>1, <4>2
      <3>3. Cared(e, h)
        BY <1>1, <3>2, MissedNone
      <3> HIDE DEF call
      <3>4. \A d \in Callers : caller[NodeOf(e)][d].step # "idle" => caller'[NodeOf(e)][d] = caller[NodeOf(e)][d]
        BY <2>0, <2>2 DEF TypeOK
      <3> QED BY <3>3, <3>4 DEF Cared
    <2> QED BY <2>1, <2>2 DEF Handle
  <1> QED BY <1>1, MissedCalls

\* add_ann adds its hash, copies the list of peers and sends to each; it is then that
\* a hash is cared for.
LEMMA MissedAdd ==
  ASSUME TypeOK, CallsOK, NoneMissed, NEW n \in Nodes, NEW c \in Callers,
         AddAnnStep(n, c) \/ CancelService(n)
  PROVE  NoneMissed'
  <1>0. UNCHANGED <<task, peers>>
    BY DEF AddAnnStep, AddAnn, ListPeers, SendInv, CancelService, listVars
  <1> DEFINE call == caller[n][c]
  <1>1. ASSUME NEW e \in Ends, Served(e), NEW h \in ToSet(anns'[NodeOf(e)]) \ cut'
        PROVE  Cared(e, h)'
    <2>0. NodeOf(e) \in Nodes /\ call.hash \in Seq(Hashes) /\ call.todo \in Seq(Ends)
      BY EndsTyped, CallersTyped
    <2>a. ASSUME h \in ToSet(anns[NodeOf(e)]) \ cut PROVE Cared(e, h)
      BY <1>1, <2>a, MissedNone
    <2>1. CASE AddAnn(n, c)
      <3>1. /\ call.step = "add" /\ UNCHANGED history
            /\ \/ caller' = [caller EXCEPT ![n][c] = Idle] /\ UNCHANGED anns
               \/ /\ anns' = [anns EXCEPT ![n] = Append(anns[n], call.hash[1])]
                  /\ caller' = [caller EXCEPT ![n][c].step = "list"]
        BY <2>1 DEF AddAnn
      <3>2. Len(call.hash) = 1 /\ call.hash[1] \in Hashes /\ call.hash = <<call.hash[1]>>
        <4>1. Len(call.hash) = 1
          BY <3>1 DEF CallsOK
        <4> QED BY <2>0, <4>1
      <3>3. \A d \in Callers : caller[NodeOf(e)][d].step \notin {"idle", "add"}
                               => caller'[NodeOf(e)][d] = caller[NodeOf(e)][d]
        <4>1. \A d \in Callers : (NodeOf(e) = n /\ d = c) \/ caller'[NodeOf(e)][d] = caller[NodeOf(e)][d]
          BY SMTT(30), <2>0, <3>1 DEF TypeOK
        <4> QED BY <3>1, <4>1
      <3>4. CASE h \in ToSet(anns[NodeOf(e)])
        <4>1. Cared(e, h)
          BY <1>1, <2>a, <3>1, <3>4 DEF history
        <4> QED BY <1>0, <3>1, <3>3, <4>1 DEF Cared, history
      <3>5. CASE h \notin ToSet(anns[NodeOf(e)])
        <4>1. ToSet(Append(anns[n], call.hash[1])) = ToSet(anns[n]) \cup {call.hash[1]}
          BY <3>2, ListParts DEF TypeOK
        <4> HIDE DEF call
        <4>2. NodeOf(e) = n /\ h = call.hash[1]
          BY <1>1, <2>0, <3>1, <3>5, <4>1 DEF TypeOK
        <4>3. caller' = [caller EXCEPT ![n][c].step = "list"]
          <5>1. CASE UNCHANGED anns
            BY <1>1, <3>5, <5>1
          <5> QED BY <3>1, <5>1
        <4>4. caller'[n][c] = [call EXCEPT !.step = "list"] /\ call \in Calls
          BY <4>3, CallersTyped DEF TypeOK, call
        <4>5. caller'[n][c].step = "list" /\ caller'[n][c].hash = call.hash
          BY <4>4 DEF Calls
        <4> QED BY <3>2, <4>2, <4>5 DEF Cared
      <3> QED BY <3>4, <3>5
    <2>2. CASE ListPeers(n, c)
      <3> DEFINE todo == Among(peers[n], Conns \X {"Incoming"})
      <3>1. call.step = "list" /\ caller' = [caller EXCEPT ![n][c] = Sending(call.hash, todo)]
            /\ UNCHANGED <<anns, history>>
        BY <2>2 DEF ListPeers
      <3>2. Cared(e, h)
        BY <1>1, <2>a, <3>1 DEF history
      <3>3. ASSUME NodeOf(e) = n, call.hash = <<h>>
            PROVE  caller'[n][c].hash = <<h>> /\ caller'[n][c].step = "send" /\ e \in ToSet(caller'[n][c].todo)
        <4>1. ToSet(todo) = ToSet(peers[n]) \cap (Conns \X {"Incoming"})
          BY AmongSet DEF TypeOK
        <4>2. e \in ToSet(todo)
          <5>1. e \in ToSet(peers[n]) /\ e[2] = "Incoming" /\ e[1] \in Conns /\ e = <<e[1], e[2]>>
            BY <1>1, <3>3, EndsTyped DEF Served, IsListed
          <5> QED BY <4>1, <5>1
        <4> HIDE DEF todo
        <4>3. todo # <<>>
          BY <4>2 DEF ToSet
        <4>4. caller'[n][c] = Call("send", <<h>>, todo)
          BY <3>1, <3>3, <4>3 DEF Sending, TypeOK
        <4> QED BY <4>2, <4>4 DEF Call
      <3> HIDE DEF todo
      <3>4. \A d \in Callers : (NodeOf(e) = n /\ d = c) \/ caller'[NodeOf(e)][d] = caller[NodeOf(e)][d]
        BY <2>0, <3>1 DEF TypeOK
      <3> QED BY <1>0, <3>1, <3>2, <3>3, <3>4 DEF Cared, history
    <2>3. CASE SendInv(n, c)
      <3> DEFINE x == Head(call.todo)
                 rest == Tail(call.todo)
      <3>1. /\ call.step = "send" /\ offered' = [offered EXCEPT ![x] = offered[x] \cup ToSet(call.hash)]
            /\ caller' = [caller EXCEPT ![n][c] = Sending(call.hash, rest)]
            /\ UNCHANGED <<anns, cut>>
        BY <2>3 DEF SendInv
      <3>2. Cared(e, h)
        BY <1>1, <2>a, <3>1
      <3>3. call.todo # <<>> /\ ToSet(call.todo) = {x} \cup ToSet(rest) /\ x \in Ends
        BY <2>0, <3>1, ListParts DEF CallsOK
      <3> HIDE DEF x, rest
      <3>4. ASSUME NodeOf(e) = n, call.hash = <<h>>, e \in ToSet(call.todo)
            PROVE  \/ h \in offered'[e]
                   \/ caller'[n][c].hash = <<h>> /\ caller'[n][c].step = "send" /\ e \in ToSet(caller'[n][c].todo)
        <4>1. CASE e = x
          <5>1. h \in ToSet(call.hash)
            BY <3>4 DEF ToSet
          <5> QED BY <3>1, <3>3, <4>1, <5>1 DEF TypeOK
        <4>2. CASE e \in ToSet(rest)
          <5>1. rest # <<>>
            BY <4>2 DEF ToSet
          <5>2. caller'[n][c] = Call("send", <<h>>, rest)
            BY <3>1, <3>4, <5>1 DEF Sending, TypeOK
          <5> QED BY <4>2, <5>2 DEF Call
        <4> QED BY <3>3, <3>4, <4>1, <4>2
      <3>5. \A d \in Callers : (NodeOf(e) = n /\ d = c) \/ caller'[NodeOf(e)][d] = caller[NodeOf(e)][d]
        BY <2>0, <3>1 DEF TypeOK
      <3>6. h \in offered[e] => h \in offered'[e]
        BY <3>1, <3>3 DEF TypeOK
      <3>7. ASSUME NEW d \in Callers, caller[NodeOf(e)][d].hash = <<h>>,
                   \/ caller[NodeOf(e)][d].step = "list"
                   \/ caller[NodeOf(e)][d].step = "send" /\ e \in ToSet(caller[NodeOf(e)][d].todo)
            PROVE  Cared(e, h)'
        <4>1. CASE NodeOf(e) = n /\ d = c
          <5>1. call.hash = <<h>> /\ e \in ToSet(call.todo)
            BY <3>1, <3>7, <4>1
          <5> HIDE DEF call
          <5> QED BY <3>4, <4>1, <5>1 DEF Cared
        <4>2. CASE caller'[NodeOf(e)][d] = caller[NodeOf(e)][d]
          BY <3>7, <4>2 DEF Cared
        <4> QED BY <3>5, <4>1, <4>2
      <3> QED BY <1>0, <3>2, <3>6, <3>7 DEF Cared
    <2>4. CASE CancelService(n)
      <3> DEFINE s == caller[n]["service"]
      <3>1. /\ s.step = "send" /\ caller' = [caller EXCEPT ![n]["service"] = Idle]
            /\ cut' = cut \cup ToSet(s.hash) /\ UNCHANGED <<anns, offered>>
        BY <2>4 DEF CancelService
      <3>2. Cared(e, h) /\ h \notin ToSet(s.hash)
        BY <1>1, <2>a, <3>1
      <3>3. \A d \in Callers : (NodeOf(e) = n /\ d = "service") \/ caller'[NodeOf(e)][d] = caller[NodeOf(e)][d]
        BY <2>0, <3>1 DEF TypeOK
      <3>4. s.hash # <<h>>
        BY <3>2 DEF ToSet
      <3> QED BY <1>0, <3>1, <3>2, <3>3, <3>4 DEF Cared
    <2> QED BY <2>1, <2>2, <2>3, <2>4 DEF AddAnnStep
  <1> QED BY <1>0, <1>1, MissedCalls

LEMMA MissedStep ==
  ASSUME Typed, ListingOK, NoneMissed, [Next]_vars
  PROVE  NoneMissed'
  <1> USE DEF Typed
  <1>1. CASE UNCHANGED vars
    BY ZenonT(30), <1>1 DEF vars, nodeVars, listVars, history, NoneMissed, IsListed
  <1>2. ASSUME Next, UNCHANGED <<anns, caller, offered, cut>>,
               \A e \in Ends : Served(e) => \/ task'[e] = task[e]
                                          \/ task[e].stage \notin {"created", "greeted", "inv"},
               \A e \in Ends : e[2] = "Incoming" /\ task[e].stage \in {"created", "greeted"} =>
                 \/ task'[e] = task[e] \/ task'[e].stage \in {"created", "greeted"}
        PROVE  NoneMissed'
    <2>1. ASSUME NEW e \in Ends, Served(e)'
          PROVE  Served(e) /\ (task[e].stage = "inv" => task'[e] = task[e])
      <3>1. e[2] = "Incoming" /\ IsListed(e)' /\ task'[e].stage \notin {"created", "greeted"}
        BY <2>1 DEF Served
      <3>2. ~CreatePeer(e)
        <4>1. ASSUME CreatePeer(e) PROVE task'[e].stage = "created"
          BY <4>1 DEF CreatePeer, TypeOK, Tasks
        <4> QED BY <3>1, <4>1
      <3>3. IsListed(e)
        BY <1>2, <3>1, <3>2, ListMoves
      <3>4. task[e].stage \notin {"created", "greeted"}
        BY <1>2, <3>1
      <3>5. Served(e)
        BY <3>1, <3>3, <3>4 DEF Served
      <3> QED BY <1>2, <3>5
    <2> QED BY <1>2, <2>1, MissedElsewhere
  <1>3. ASSUME NEW e \in Ends, NEW t, task' = [task EXCEPT ![e] = t], Next,
               UNCHANGED <<anns, caller, offered, cut>>,
               \/ task[e].stage \in {"accepted", "created"} /\ t.stage \in {"created", "greeted"}
               \/ task[e].stage \in {"run", "write", "ask", "reply", "announce"}
        PROVE  NoneMissed'
    <2>1. \A x \in Ends : Served(x) => \/ task'[x] = task[x]
                                     \/ task[x].stage \notin {"created", "greeted", "inv"}
      BY <1>3 DEF TypeOK, Served
    <2>2. \A x \in Ends : x[2] = "Incoming" /\ task[x].stage \in {"created", "greeted"} =>
            \/ task'[x] = task[x] \/ task'[x].stage \in {"created", "greeted"}
      BY <1>3 DEF TypeOK
    <2> QED BY <1>2, <1>3, <2>1, <2>2
  <1>4. ASSUME Next, NEW c \in Conns, Connect(c) PROVE NoneMissed'
    <2> DEFINE o == <<c, "Outgoing">>
               i == <<c, "Incoming">>
    <2>1. o \in Ends /\ i \in Ends /\ o # i /\ Other(o) = i /\ o[2] = "Outgoing"
      BY DEF Ends, Other
    <2>2. task[o].stage = "unused" /\ task[i].stage = "unused"
      BY <1>4 DEF Connect, ListingOK
    <2>3. /\ task' = [task EXCEPT ![o] = Serving, ![i] = Task("accepted", <<>>, NoMsg)]
          /\ UNCHANGED <<anns, caller, offered, cut>>
      BY <1>4, <2>1 DEF Connect, nodeVars, history
    <2> HIDE DEF o, i
    <2>4. \A e \in Ends : e = o \/ e = i \/ task'[e] = task[e]
      BY <2>1, <2>3 DEF TypeOK
    <2> QED BY <1>2, <1>4, <2>2, <2>3, <2>4
  <1>5. ASSUME Next, NEW e \in Ends, Greet(e) PROVE NoneMissed'
    <2>1. CASE CreatePeer(e) \/ Hello(e)
      <3> DEFINE t == [task[e] EXCEPT !.stage = IF CreatePeer(e) THEN "created" ELSE "greeted"]
      <3>1. task[e] \in Tasks
        BY DEF TypeOK
      <3>2. task' = [task EXCEPT ![e] = t] /\ task[e].stage \in {"accepted", "created"}
        BY <2>1, <3>1 DEF CreatePeer, Hello, TypeOK
      <3>3. t.stage \in {"created", "greeted"}
        BY <3>1 DEF Tasks
      <3>4. UNCHANGED <<anns, caller, offered, cut>>
        BY <2>1 DEF CreatePeer, Hello, nodeVars, history
      <3> HIDE DEF t
      <3> QED BY <1>3, <1>5, <3>2, <3>3, <3>4
    <2>2. CASE HashList(e) \/ OfferChunk(e)
      BY <2>2, MissedGreeting
    <2> QED BY <1>5, <2>1, <2>2 DEF Greet
  <1>6. ASSUME Next, NEW e \in Ends, Serve(e) \/ Recv(e) \/ Read(e) \/ Fail(e) PROVE NoneMissed'
    <2>1. UNCHANGED <<anns, caller, offered, cut>>
      BY <1>6 DEF Serve, Write, Ask, Reply, Announce, Recv, Read, Fail, nodeVars, history
    <2>2. task[e].stage \in {"run", "write", "ask", "reply", "announce"}
      BY <1>6 DEF Serve, Write, Ask, Reply, Announce, Recv, Read, Fail
    <2>3. task' = [task EXCEPT ![e] = task'[e]]
      <3>1. CASE Serve(e) \/ Recv(e) \/ Fail(e)
        BY <3>1 DEF Serve, Write, Ask, Reply, Announce, Recv, Fail, Closed, TypeOK
      <3>2. CASE Read(e)
        <4> DEFINE m == Head(wire[Other(e)])
        <4>1. \/ HandleHello(e, m) \/ HandleGetData(e, m) \/ HandlePing(e, m)
              \/ HandleAck(e, m) \/ HandleInv(e, m) \/ HandleData(e, m)
          BY <3>2 DEF Read
        <4> HIDE DEF m
        <4>2. Closed(e) \/ \E t : Goes(e, t)
          BY <4>1 DEF HandleHello, HandleGetData, HandlePing, HandleAck, HandleInv, HandleData
        <4> QED BY <4>2 DEF Closed, Goes, TypeOK
      <3> QED BY <1>6, <3>1, <3>2
    <2> QED BY <1>3, <1>6, <2>1, <2>2, <2>3
  <1>7. ASSUME Next, UNCHANGED <<task, anns, caller, offered, cut>> PROVE NoneMissed'
    BY <1>2, <1>7
  <1>8. ASSUME Next, \/ \E c \in Conns : Break(c)
                     \/ \E n \in Nodes : DoPings(n) \/ PingStep(n)
                     \/ \E s \in Strays : Stray(s)
        PROVE  NoneMissed'
    BY <1>7, <1>8 DEF Break, DoPings, PingStep, PingPeer, DropPeer, Stray, nodeVars, history
  <1>9. ASSUME NEW n \in Nodes, HandleGossip(n) PROVE NoneMissed'
    <2>1. UNCHANGED <<task, peers, offered, cut>> /\ caller[n]["gossip"].step = "idle"
      BY <1>9 DEF HandleGossip, listVars, history
    <2>2. CASE UNCHANGED <<anns, caller>>
      BY <2>1, <2>2 DEF NoneMissed, IsListed
    <2>3. CASE Head(annQueue[n]) # <<>> /\ Handle(n, "gossip", Head(annQueue[n])[1])
      <3>1. annQueue[n] # <<>> /\ annQueue[n] \in Seq(Seq(Hashes))
        BY <1>9 DEF HandleGossip, TypeOK
      <3>2. Head(annQueue[n]) \in Seq(Hashes)
        BY <3>1, ListParts
      <3>3. Head(annQueue[n])[1] \in Hashes /\ "gossip" \in Callers
        BY <2>3, <3>2 DEF Callers
      <3> QED BY <2>1, <2>3, <3>3, MissedHandle
    <2> QED BY <1>9, <2>2, <2>3 DEF HandleGossip
  <1>10. ASSUME NEW n \in Nodes, NEW hash \in Hashes, HandleService(n, hash) PROVE NoneMissed'
    <2>1. /\ UNCHANGED <<task, peers, offered, cut>> /\ caller[n]["service"].step = "idle"
          /\ Handle(n, "service", hash) /\ "service" \in Callers
      BY <1>10 DEF HandleService, listVars, history, Callers
    <2> QED BY <2>1, MissedHandle
  <1>11. ASSUME NEW n \in Nodes, \/ CancelService(n) \/ \E c \in Callers : AddAnnStep(n, c)
         PROVE  NoneMissed'
    <2>1. "service" \in Callers
      BY DEF Callers
    <2> QED BY <1>11, <2>1, MissedAdd
  <1>12. ASSUME Next PROVE NoneMissed'
    BY <1>4, <1>5, <1>6, <1>8, <1>9, <1>10, <1>11, <1>12 DEF Next
  <1> QED BY <1>1, <1>12

\* A listed incoming peer misses no hash: each that the supernode holds has been offered
\* to it, is in the copy incoming() is still offering, or is in the hands of an add_ann
\* that has yet to come to this peer, unless the service task cancelled that add_ann.
THEOREM OffersAll == Spec => []NoneMissed
  <1> DEFINE Inv == Typed /\ ListingOK /\ NoneMissed
  <1>1. Init => Inv
    <2> SUFFICES ASSUME Init PROVE Inv
      OBVIOUS
    <2>1. Typed
      BY InitTyped DEF Typed, TasksOK, Init, Task
    <2>2. \A e \in Ends : ~IsListed(e)
      BY EndsTyped DEF Init, IsListed, ToSet
    <2>3. \A c \in Conns : task[<<c, "Incoming">>].stage = "unused"
      BY DEF Init, Task, Ends
    <2> QED BY <2>1, <2>2, <2>3 DEF ListingOK, NoneMissed
  <1>2. Inv /\ [Next]_vars => Inv'
    BY TypedStep, ListingStep, MissedStep DEF Typed
  <1>3. Inv => NoneMissed
    OBVIOUS
  <1> QED BY <1>1, <1>2, <1>3, PTL DEF Spec

-----------------------------------------------------------------------------
(* Every answer is expected.                                                 *)

\* The ids of what is outstanding have been taken from the sequence.
IdsOK == \A e \in Ends : \A id \in reqs[e] : id < msgId[NodeOf(e)]

AnswersOf(e) ==
  /\ \A p \in UnderWay(e) : At(p).id \in reqs[e]
  /\ \A p, q \in UnderWay(e) : At(p).id = At(q).id => p = q

\* Message m at end x is a request of e or the answer to one.
Counts(e, x, m) == (x = e /\ m.type = "GET_DATA") \/ (x = Other(e) /\ m.type = "DATA")

\* Message m is at the place p of end x.
Has(x, p, m) ==
  \/ \E i \in DOMAIN queue[x] : p = <<x, "queue", i>> /\ m = queue[x][i]
  \/ p = <<x, "task", 1>> /\ m = task[x].out
  \/ \E i \in DOMAIN wire[x] : p = <<x, "wire", i>> /\ m = wire[x][i]

\* The places of what is under way for e, with what is there.
Finds(e) ==
  /\ \A p \in UnderWay(e) : \E x \in {e, Other(e)} : \E m :
       Has(x, p, m) /\ Counts(e, x, m) /\ At(p) = m
  /\ \A x \in {e, Other(e)} : \A p, m :
       Has(x, p, m) /\ Counts(e, x, m) => p \in UnderWay(e) /\ At(p) = m

LEMMA HasIs ==
  ASSUME NEW e \in Ends
  PROVE  Finds(e)
  <1>1. ASSUME NEW x, NEW p, NEW m, Has(x, p, m)
        PROVE  p \in Places(x) /\ At(p) = m
    <2>1. ASSUME NEW i \in DOMAIN queue[x], p = <<x, "queue", i>>, m = queue[x][i]
          PROVE  p \in Places(x) /\ At(p) = m
      BY <2>1 DEF Places, At
    <2>2. ASSUME p = <<x, "task", 1>>, m = task[x].out
          PROVE  p \in Places(x) /\ At(p) = m
      BY <2>2 DEF Places, At
    <2>3. ASSUME NEW i \in DOMAIN wire[x], p = <<x, "wire", i>>, m = wire[x][i]
          PROVE  p \in Places(x) /\ At(p) = m
      BY <2>3 DEF Places, At
    <2> QED BY <1>1, <2>1, <2>2, <2>3 DEF Has
  <1>2. ASSUME NEW x, NEW p \in Places(x) PROVE Has(x, p, At(p))
    <2>1. CASE p = <<x, "task", 1>>
      BY <2>1 DEF Has, At
    <2>2. ASSUME NEW i \in DOMAIN queue[x], p = <<x, "queue", i>> PROVE Has(x, p, At(p))
      BY <2>2 DEF Has, At
    <2>3. ASSUME NEW i \in DOMAIN wire[x], p = <<x, "wire", i>> PROVE Has(x, p, At(p))
      BY <2>3 DEF Has, At
    <2> QED BY <2>1, <2>2, <2>3 DEF Places
  <1>3. ASSUME NEW p \in UnderWay(e)
        PROVE  \E x \in {e, Other(e)} : Has(x, p, At(p)) /\ Counts(e, x, At(p))
    BY <1>2 DEF UnderWay, Sent, Counts
  <1>4. ASSUME NEW p, NEW m, NEW x \in {e, Other(e)}, Has(x, p, m), Counts(e, x, m)
        PROVE  p \in UnderWay(e) /\ At(p) = m
    BY <1>1, <1>4, EndsTyped DEF UnderWay, Sent, Counts
  <1> QED BY <1>3, <1>4 DEF Finds

LEMMA HasIsNext ==
  ASSUME NEW e \in Ends
  PROVE  Finds(e)'
  BY HasIs, PTL

\* A step that takes each message that is then under way from a place of its own.
LEMMA AnswersMove ==
  ASSUME NEW e \in Ends, AnswersOf(e), NEW src,
         \A x \in {e, Other(e)} : \A p, m : Has(x, p, m)' /\ Counts(e, x, m) =>
           /\ m.id \in reqs'[e]
           /\ \E y \in {e, Other(e)} : \E k : Has(y, src[p], k) /\ Counts(e, y, k) /\ k.id = m.id,
         \A x, y \in {e, Other(e)} : \A p, q, m, k :
           /\ Has(x, p, m)' /\ Counts(e, x, m) /\ Has(y, q, k)' /\ Counts(e, y, k)
           /\ src[p] = src[q]
           => p = q
  PROVE  AnswersOf(e)'
  <1>1. ASSUME NEW p \in UnderWay(e)'
        PROVE  \E x, m :
                 /\ x \in {e, Other(e)} /\ Has(x, p, m)' /\ Counts(e, x, m) /\ At(p)' = m
                 /\ m.id \in reqs'[e] /\ src[p] \in UnderWay(e) /\ At(src[p]).id = m.id
    <2>1. \E x \in {e, Other(e)} : \E m : Has(x, p, m)' /\ Counts(e, x, m) /\ At(p)' = m
      BY <1>1, HasIsNext DEF Finds
    <2>2. PICK x, m : x \in {e, Other(e)} /\ Has(x, p, m)' /\ Counts(e, x, m) /\ At(p)' = m
      BY <2>1
    <2>3. PICK y, k : /\ y \in {e, Other(e)} /\ Has(y, src[p], k) /\ Counts(e, y, k)
                      /\ k.id = m.id /\ m.id \in reqs'[e]
      BY <2>2
    <2>4. src[p] \in UnderWay(e) /\ At(src[p]) = k
      BY <2>3, HasIs DEF Finds
    <2> QED BY <2>2, <2>3, <2>4
  <1>2. ASSUME NEW p \in UnderWay(e)', NEW q \in UnderWay(e)', At(p)'.id = At(q)'.id
        PROVE  p = q
    <2>1. PICK x, m :
                 /\ x \in {e, Other(e)} /\ Has(x, p, m)' /\ Counts(e, x, m) /\ At(p)' = m
                 /\ src[p] \in UnderWay(e) /\ At(src[p]).id = m.id
      BY <1>1
    <2>2. PICK y, k :
                 /\ y \in {e, Other(e)} /\ Has(y, q, k)' /\ Counts(e, y, k) /\ At(q)' = k
                 /\ src[q] \in UnderWay(e) /\ At(src[q]).id = k.id
      BY <1>1
    <2>3. src[p] = src[q]
      BY <1>2, <2>1, <2>2 DEF AnswersOf
    <2> QED BY <2>1, <2>2, <2>3
  <1>3. \A p \in UnderWay(e)' : At(p)'.id \in reqs'[e]
    BY <1>1
  <1> QED BY <1>2, <1>3 DEF AnswersOf

\* The places of two ends, in the lists that hold messages.
Spots(e) == {e, Other(e)} \X {"queue", "task", "wire"} \X (Nat \ {0})

LEMMA HasSpot ==
  ASSUME TypeOK, NEW e \in Ends, NEW x \in {e, Other(e)}, NEW p, NEW m, Has(x, p, m)
  PROVE  p \in Spots(e)
  <1>1. x \in Ends /\ queue[x] \in Seq(Message) /\ wire[x] \in Seq(Message)
    BY EndsTyped DEF TypeOK
  <1>2. DOMAIN queue[x] \in SUBSET (Nat \ {0}) /\ DOMAIN wire[x] \in SUBSET (Nat \ {0}) /\ 1 \in Nat \ {0}
    BY <1>1
  <1> QED BY <1>2 DEF Has, Spots

LEMMA HasSpotNext ==
  ASSUME NEW e \in Ends
  PROVE  (TypeOK => \A x \in {e, Other(e)} : \A p, m : Has(x, p, m) => p \in Spots(e))'
  <1>1. TypeOK => \A x \in {e, Other(e)} : \A p, m : Has(x, p, m) => p \in Spots(e)
    BY HasSpot
  <1> QED BY <1>1, PTL

\* A message goes from the place a to the place b, which then holds nothing under way
\* of its own; the others stay.
LEMMA AnswersPass ==
  ASSUME TypeOK', NEW e \in Ends, AnswersOf(e), NEW a, NEW b,
         \A x \in {e, Other(e)} : \A p, m : Has(x, p, m)' /\ Counts(e, x, m) =>
           /\ m.id \in reqs'[e]
           /\ p = a => p = b
           /\ p # b => Has(x, p, m)
           /\ p = b => \E y \in {e, Other(e)} : \E k : Has(y, a, k) /\ Counts(e, y, k) /\ k.id = m.id
  PROVE  AnswersOf(e)'
  <1> DEFINE src == [p \in Spots(e) |-> IF p = b THEN a ELSE p]
  <1>1. \A x \in {e, Other(e)} : \A p, m : Has(x, p, m)' => p \in Spots(e)
    BY HasSpotNext
  <1>2. \A p \in Spots(e) : src[p] = IF p = b THEN a ELSE p
    OBVIOUS
  <1> HIDE DEF src
  <1>3. \A x \in {e, Other(e)} : \A p, m : Has(x, p, m)' /\ Counts(e, x, m) =>
          /\ m.id \in reqs'[e]
          /\ \E y \in {e, Other(e)} : \E k : Has(y, src[p], k) /\ Counts(e, y, k) /\ k.id = m.id
    BY <1>1, <1>2
  <1>4. \A x, y \in {e, Other(e)} : \A p, q, m, k :
          /\ Has(x, p, m)' /\ Counts(e, x, m) /\ Has(y, q, k)' /\ Counts(e, y, k)
          /\ src[p] = src[q]
          => p = q
    BY <1>1, <1>2
  <1> QED BY <1>3, <1>4, AnswersMove

\* Message m, now at the place p of x, was there or one place further in the list w of y,
\* or it is at b and follows from the head of that list.
Shifted(e, y, w, b, x, p, m) ==
  \/ p # b /\ (\A i : p # <<y, w, i>>) /\ Has(x, p, m)
  \/ \E i \in Nat \ {0} : p = <<y, w, i>> /\ Has(x, <<y, w, i + 1>>, m)
  \/ p = b /\ \E z \in {e, Other(e)} : \E k : Has(z, <<y, w, 1>>, k) /\ Counts(e, z, k) /\ k.id = m.id

\* The list w of y loses its head, which may go to the place b; the others stay.
LEMMA AnswersShift ==
  ASSUME TypeOK', NEW e \in Ends, AnswersOf(e), NEW y \in {e, Other(e)}, NEW w \in {"queue", "wire"}, NEW b,
         \A i : b # <<y, w, i>>,
         \A x \in {e, Other(e)} : \A p, m : Has(x, p, m)' /\ Counts(e, x, m) =>
           m.id \in reqs'[e] /\ Shifted(e, y, w, b, x, p, m)
  PROVE  AnswersOf(e)'
  <1> DEFINE src == [p \in Spots(e) |-> IF p = b THEN <<y, w, 1>>
                                         ELSE IF p[1] = y /\ p[2] = w THEN <<y, w, p[3] + 1>> ELSE p]
  <1>1. \A x \in {e, Other(e)} : \A p, m : Has(x, p, m)' => p \in Spots(e)
    BY HasSpotNext
  <1>2. ASSUME NEW p \in Spots(e)
        PROVE  /\ p = b => src[p] = <<y, w, 1>>
               /\ p # b /\ (\A i : p # <<y, w, i>>) => src[p] = p
               /\ \A i \in Nat \ {0} : p = <<y, w, i>> => src[p] = <<y, w, i + 1>>
    <2>1. p = <<p[1], p[2], p[3]>>
      BY DEF Spots
    <2> QED BY <2>1
  <1> HIDE DEF src
  <1> DEFINE Stays(x, p, m) == p # b /\ (\A i : p # <<y, w, i>>) /\ Has(x, p, m)
             Shifts(x, p, m) == \E i \in Nat \ {0} : p = <<y, w, i>> /\ Has(x, <<y, w, i + 1>>, m)
             Comes(p, m) == p = b /\ \E z \in {e, Other(e)} : \E k : Has(z, <<y, w, 1>>, k) /\ Counts(e, z, k) /\ k.id = m.id
  <1>5. ASSUME NEW x \in {e, Other(e)}, NEW p, NEW m, Has(x, p, m)', Counts(e, x, m)
        PROVE  m.id \in reqs'[e] /\ (Stays(x, p, m) \/ Shifts(x, p, m) \/ Comes(p, m))
    BY <1>5 DEF Shifted
  <1>3. ASSUME NEW x \in {e, Other(e)}, NEW p, NEW m, Has(x, p, m)', Counts(e, x, m)
        PROVE  /\ m.id \in reqs'[e]
               /\ \E z \in {e, Other(e)} : \E k : Has(z, src[p], k) /\ Counts(e, z, k) /\ k.id = m.id
    <2>1. p \in Spots(e)
      BY <1>1, <1>3
    <2>2. CASE Stays(x, p, m)
      BY <1>2, <1>3, <2>1, <2>2
    <2>3. ASSUME NEW i \in Nat \ {0}, p = <<y, w, i>>, Has(x, <<y, w, i + 1>>, m)
          PROVE  Has(x, src[p], m)
      BY <1>2, <2>1, <2>3
    <2>5. CASE Shifts(x, p, m)
      BY <1>3, <1>5, <2>3, <2>5
    <2>4. CASE Comes(p, m)
      BY <1>2, <1>3, <2>1, <2>4
    <2> HIDE DEF Stays, Shifts, Comes
    <2> QED BY <1>3, <1>5, <2>2, <2>4, <2>5
  <1>4. ASSUME NEW x \in {e, Other(e)}, NEW z \in {e, Other(e)}, NEW p, NEW q, NEW m, NEW k,
               Has(x, p, m)', Counts(e, x, m), Has(z, q, k)', Counts(e, z, k), src[p] = src[q]
        PROVE  p = q
    <2> DEFINE Head1(r) == r = b /\ src[r] = <<y, w, 1>>
               Kept(r) == (\A i : r # <<y, w, i>>) /\ src[r] = r
               Moved(r) == \E i \in Nat \ {0} : r = <<y, w, i>> /\ src[r] = <<y, w, i + 1>>
    <2>1. ASSUME NEW u \in {e, Other(e)}, NEW r, NEW n, Has(u, r, n)', Counts(e, u, n)
          PROVE  Head1(r) \/ Kept(r) \/ Moved(r)
      <3>1. r \in Spots(e)
        BY <1>1, <2>1
      <3>2. CASE r # b /\ (\A i : r # <<y, w, i>>)
        BY <1>2, <3>1, <3>2
      <3>3. CASE \E i \in Nat \ {0} : r = <<y, w, i>>
        BY <1>2, <3>1, <3>3
      <3>4. CASE r = b
        BY <1>2, <3>1, <3>4
      <3>5. (r # b /\ \A i : r # <<y, w, i>>) \/ (\E i \in Nat \ {0} : r = <<y, w, i>>) \/ r = b
        BY <1>5, <2>1
      <3> QED BY <3>2, <3>3, <3>4, <3>5
    <2>2. \A i, j : <<y, w, i>> = <<y, w, j>> => i = j
      OBVIOUS
    <2>3. ASSUME Moved(p), Moved(q) PROVE p = q
      <3>1. PICK i \in Nat \ {0} : p = <<y, w, i>> /\ src[p] = <<y, w, i + 1>>
        BY <2>3
      <3>2. PICK j \in Nat \ {0} : q = <<y, w, j>> /\ src[q] = <<y, w, j + 1>>
        BY <2>3
      <3>3. i + 1 = j + 1
        BY <1>4, <2>2, <3>1, <3>2
      <3> QED BY <3>1, <3>2, <3>3
    <2>4. \A r, s : Moved(r) /\ Head1(s) => src[r] # src[s]
      <3>1. \A i \in Nat \ {0} : i + 1 # 1
        OBVIOUS
      <3> QED BY <2>2, <3>1
    <2>5. \A r, s : Kept(r) /\ (Moved(s) \/ Head1(s)) => src[r] # src[s]
      OBVIOUS
    <2>6. Kept(p) /\ Kept(q) => p = q
      BY <1>4
    <2>7. Head1(p) /\ Head1(q) => p = q
      OBVIOUS
    <2> HIDE DEF Head1, Kept, Moved
    <2> QED BY <1>4, <2>1, <2>3, <2>4, <2>5, <2>6, <2>7
  <1> QED BY <1>3, <1>4, AnswersMove

\* Whatever of a list counts for e was there before, at the same place.
Keeps(e, x, s, t) == \A i \in DOMAIN t : Counts(e, x, t[i]) => i \in DOMAIN s /\ t[i] = s[i]

\* A step that puts nothing that counts for e in any place of end x.
Still(e, x) ==
  /\ Keeps(e, x, queue[x], queue'[x]) /\ Keeps(e, x, wire[x], wire'[x])
  /\ Counts(e, x, task'[x].out) => task'[x].out = task[x].out

LEMMA KeepsList ==
  ASSUME NEW e, NEW x, NEW s \in Seq(Message)
  PROVE  /\ Keeps(e, x, s, s) /\ Keeps(e, x, s, <<>>)
         /\ \A m \in Message : ~Counts(e, x, m) => Keeps(e, x, s, Append(s, m)) /\ Keeps(e, x, s, <<m>>)
  <1>1. Keeps(e, x, s, s) /\ Keeps(e, x, s, <<>>)
    BY DEF Keeps
  <1>2. ASSUME NEW m \in Message, ~Counts(e, x, m)
        PROVE  Keeps(e, x, s, Append(s, m)) /\ Keeps(e, x, s, <<m>>)
    <2> DEFINE t == Append(s, m)
    <2>1. \A i \in DOMAIN t : t[i] = m \/ (i \in DOMAIN s /\ t[i] = s[i])
      OBVIOUS
    <2>2. \A i \in DOMAIN <<m>> : <<m>>[i] = m
      OBVIOUS
    <2> HIDE DEF t
    <2>3. Keeps(e, x, s, t)
      BY <1>2, <2>1 DEF Keeps
    <2>4. Keeps(e, x, s, <<m>>)
      BY <1>2, <2>2 DEF Keeps
    <2> QED BY <2>3, <2>4 DEF t
  <1> QED BY <1>1, <1>2

LEMMA StillHas ==
  ASSUME NEW e, NEW x, Still(e, x), NEW p, NEW m, Has(x, p, m)', Counts(e, x, m)
  PROVE  Has(x, p, m)
  <1>1. ASSUME NEW i \in DOMAIN queue'[x], p = <<x, "queue", i>>, m = queue'[x][i]
        PROVE  Has(x, p, m)
    BY <1>1 DEF Has, Still, Keeps
  <1>2. ASSUME p = <<x, "task", 1>>, m = task'[x].out
        PROVE  Has(x, p, m)
    BY <1>2 DEF Has, Still
  <1>3. ASSUME NEW i \in DOMAIN wire'[x], p = <<x, "wire", i>>, m = wire'[x][i]
        PROVE  Has(x, p, m)
    BY <1>3 DEF Has, Still, Keeps
  <1>4. \/ \E i \in DOMAIN queue'[x] : p = <<x, "queue", i>> /\ m = queue'[x][i]
        \/ p = <<x, "task", 1>> /\ m = task'[x].out
        \/ \E i \in DOMAIN wire'[x] : p = <<x, "wire", i>> /\ m = wire'[x][i]
    BY DEF Has
  <1> QED BY <1>1, <1>2, <1>3, <1>4

\* What is under way is outstanding.
LEMMA HasAsked ==
  ASSUME NEW e \in Ends, AnswersOf(e), NEW x \in {e, Other(e)}, NEW p, NEW m, Has(x, p, m), Counts(e, x, m)
  PROVE  m.id \in reqs[e]
  BY HasIs DEF Finds, AnswersOf

LEMMA AnswersStay ==
  ASSUME TypeOK', NEW e \in Ends, AnswersOf(e), reqs'[e] = reqs[e],
         \A x \in {e, Other(e)} : Still(e, x)
  PROVE  AnswersOf(e)'
  <1> DEFINE src == [p \in Spots(e) |-> p]
  <1>1. ASSUME NEW x \in {e, Other(e)}, NEW p, NEW m, Has(x, p, m)', Counts(e, x, m)
        PROVE  src[p] = p /\ Has(x, p, m) /\ m.id \in reqs'[e]
    <2>1. p \in Spots(e)
      BY <1>1, HasSpotNext
    <2>2. Has(x, p, m)
      BY <1>1, StillHas
    <2> QED BY <1>1, <2>1, <2>2, HasAsked
  <1> HIDE DEF src
  <1>2. \A x \in {e, Other(e)} : \A p, m : Has(x, p, m)' /\ Counts(e, x, m) =>
          /\ m.id \in reqs'[e]
          /\ \E y \in {e, Other(e)} : \E k : Has(y, src[p], k) /\ Counts(e, y, k) /\ k.id = m.id
    BY <1>1
  <1>3. \A x, y \in {e, Other(e)} : \A p, q, m, k :
          /\ Has(x, p, m)' /\ Counts(e, x, m) /\ Has(y, q, k)' /\ Counts(e, y, k)
          /\ src[p] = src[q]
          => p = q
    BY <1>1
  <1> QED BY <1>2, <1>3, AnswersMove

\* Steps after which nothing more is under way.
LEMMA StillQueue ==
  ASSUME TypeOK, NEW y \in Ends, NEW m \in Message, m.type \notin {"GET_DATA", "DATA"},
         Enqueue(y, m) \/ EnqueueUnlessClosed(y, m)
  PROVE  \A e, x \in Ends : Keeps(e, x, queue[x], queue'[x])
  <1> SUFFICES ASSUME NEW e \in Ends, NEW x \in Ends PROVE Keeps(e, x, queue[x], queue'[x])
    OBVIOUS
  <1>1. queue[x] \in Seq(Message) /\ ~Counts(e, x, m)
    BY DEF TypeOK, Counts
  <1>2. queue' = queue \/ queue' = [queue EXCEPT ![y] = Append(queue[y], m)]
    BY DEF Enqueue, EnqueueUnlessClosed
  <1>3. queue'[x] = queue[x] \/ queue'[x] = Append(queue[x], m)
    BY <1>2 DEF TypeOK
  <1> QED BY <1>1, <1>3, KeepsList

LEMMA StillConnect ==
  ASSUME TypeOK, NEW e \in Ends, NEW c \in Conns, Connect(c)
  PROVE  UNCHANGED reqs /\ \A x \in Ends : Still(e, x)
  <1> DEFINE y == <<c, "Outgoing">>
             m == Msg("OLLEH", 0, <<>>)
  <1>1. y \in Ends /\ m \in Message /\ m.type = "OLLEH" /\ Other(y) \in Ends /\ Other(y) # y
    BY EndsTyped, MessageTyped DEF Ends, Msg
  <1> SUFFICES ASSUME NEW x \in Ends PROVE UNCHANGED reqs /\ Still(e, x)
    BY <1>1
  <1>2. /\ task' = [task EXCEPT ![y] = Serving, ![Other(y)] = Task("accepted", <<>>, NoMsg)]
        /\ queue' = [queue EXCEPT ![y] = <<m>>]
        /\ UNCHANGED <<wire, reqs>>
    BY DEF Connect, connVars
  <1> HIDE DEF y, m
  <1>3. queue[x] \in Seq(Message) /\ wire[x] \in Seq(Message) /\ ~Counts(e, x, m)
    BY <1>1 DEF TypeOK, Counts
  <1>4. queue'[x] = queue[x] \/ queue'[x] = <<m>>
    BY <1>2 DEF TypeOK
  <1>5. task'[x] = task[x] \/ task'[x].out = NoMsg
    BY <1>1, <1>2 DEF TypeOK, Serving, Task
  <1>6. ~Counts(e, x, NoMsg)
    BY DEF Counts, NoMsg, Msg
  <1>7. Keeps(e, x, queue[x], queue'[x]) /\ Keeps(e, x, wire[x], wire'[x])
    BY <1>1, <1>2, <1>3, <1>4, KeepsList
  <1> QED BY <1>2, <1>5, <1>6, <1>7 DEF Still

LEMMA StillGreet ==
  ASSUME TypeOK, NEW e \in Ends, NEW y \in Ends, Greet(y) \/ Announce(y)
  PROVE  UNCHANGED reqs /\ \A x \in Ends : Still(e, x)
  <1> SUFFICES ASSUME NEW x \in Ends PROVE UNCHANGED reqs /\ Still(e, x)
    BY EndsTyped
  <1>1. UNCHANGED <<reqs, wire>>
    BY DEF Greet, CreatePeer, Hello, HashList, OfferChunk, Announce, connVars
  <1>2. ~Counts(e, x, NoMsg)
    BY DEF Counts, NoMsg, Msg
  <1>3. task'[x].out = task[x].out \/ task'[x].out = NoMsg
    <2>1. /\ task[y] \in [stage : Stages, todo : Seq(Hashes), out : Message]
          /\ task \in [Ends -> Tasks]
      BY DEF TypeOK, Tasks
    <2>2. PICK t : task' = [task EXCEPT ![y] = t] /\ (t.out = task[y].out \/ t.out = NoMsg)
      <3>1. CASE CreatePeer(y) \/ Hello(y)
        <4>1. PICK s : task' = [task EXCEPT ![y].stage = s]
          BY <3>1 DEF CreatePeer, Hello
        <4>2. task' = [task EXCEPT ![y] = [task[y] EXCEPT !.stage = s]]
          BY <4>1
        <4>3. [task[y] EXCEPT !.stage = s].out = task[y].out
          BY <2>1
        <4> QED BY <4>2, <4>3
      <3>2. CASE HashList(y) \/ OfferChunk(y) \/ Announce(y)
        BY <3>2 DEF HashList, OfferChunk, Announce, Continue, Task, Serving
      <3> QED BY <3>1, <3>2 DEF Greet
    <2>3. x = y => task'[x] = t
      BY <2>1, <2>2
    <2>4. x # y => task'[x] = task[x]
      BY <2>1, <2>2
    <2> QED BY <2>2, <2>3, <2>4
  <1>4. wire[x] \in Seq(Message) /\ queue[x] \in Seq(Message)
    BY DEF TypeOK
  <1>5. Keeps(e, x, queue[x], queue'[x])
    <2>1. CASE UNCHANGED queue
      BY <1>4, <2>1, KeepsList
    <2>2. CASE Hello(y)
      <3>1. Msg("HELLO", 0, <<>>) \in Message /\ Msg("HELLO", 0, <<>>).type = "HELLO"
        BY MessageTyped DEF Msg
      <3>2. Enqueue(y, Msg("HELLO", 0, <<>>))
        BY <2>2 DEF Hello
      <3> QED BY <3>1, <3>2, StillQueue
    <2>3. CASE OfferChunk(y)
      <3>1. PICK n \in Int : Enqueue(y, Msg("INV", 0, SubSeq(task[y].todo, 1, n))) /\ n <= Len(task[y].todo)
        <4>1. task[y].todo \in Seq(Hashes)
          BY TaskTyped DEF TypeOK
        <4>2. Len(task[y].todo) \in Nat
          BY <4>1
        <4> QED BY <2>3, <4>2, SizesAssumption DEF OfferChunk
      <3>2. SubSeq(task[y].todo, 1, n) \in Seq(Hashes)
        <4>1. task[y].todo \in Seq(Hashes)
          BY TaskTyped DEF TypeOK
        <4> QED BY <4>1, <3>1
      <3>3. Msg("INV", 0, SubSeq(task[y].todo, 1, n)) \in Message
        BY <3>2, MessageTyped
      <3>4. Msg("INV", 0, SubSeq(task[y].todo, 1, n)).type = "INV"
        BY DEF Msg
      <3> QED BY <3>1, <3>3, <3>4, StillQueue
    <2>4. CASE CreatePeer(y) \/ HashList(y) \/ Announce(y)
      BY <2>1, <2>4 DEF CreatePeer, HashList, Announce
    <2> QED BY <2>2, <2>3, <2>4 DEF Greet
  <1> QED BY <1>1, <1>2, <1>3, <1>4, <1>5, KeepsList DEF Still

LEMMA StillFail ==
  ASSUME TypeOK, NEW e \in Ends, NEW y \in Ends, Fail(y)
  PROVE  UNCHANGED reqs /\ \A x \in Ends : Still(e, x)
  <1> SUFFICES ASSUME NEW x \in Ends PROVE UNCHANGED reqs /\ Still(e, x)
    BY EndsTyped
  <1>1. /\ task' = [task EXCEPT ![y] = Task("closed", <<>>, NoMsg)]
        /\ queue' = [queue EXCEPT ![y] = <<>>]
        /\ wire' = [wire EXCEPT ![Other(y)] = <<>>]
        /\ UNCHANGED reqs
    BY DEF Fail, Closed
  <1>2. Task("closed", <<>>, NoMsg).out = NoMsg /\ ~Counts(e, x, NoMsg)
    BY DEF Task, Counts, NoMsg, Msg
  <1>3. /\ wire[x] \in Seq(Message) /\ queue[x] \in Seq(Message)
        /\ wire'[x] = wire[x] \/ wire'[x] = <<>>
        /\ queue'[x] = queue[x] \/ queue'[x] = <<>>
        /\ task'[x] = task[x] \/ task'[x] = Task("closed", <<>>, NoMsg)
    BY <1>1 DEF TypeOK
  <1> QED BY <1>1, <1>2, <1>3, KeepsList DEF Still

LEMMA StillSend ==
  ASSUME TypeOK, CallsOK, NEW e \in Ends, NEW n \in Nodes,
         PingPeer(n) \/ \E c \in Callers : SendInv(n, c)
  PROVE  UNCHANGED reqs /\ \A x \in Ends : Still(e, x)
  <1>1. PICK y \in Ends, m \in Message : EnqueueUnlessClosed(y, m) /\ m.type \in {"INV", "PING"}
    <2>1. CASE PingPeer(n)
      <3>1. ping[n].ping \in Seq(Ends)
        BY DEF TypeOK
      <3>2. Head(ping[n].ping) \in Ends /\ EnqueueUnlessClosed(Head(ping[n].ping), Msg("PING", 0, <<>>))
        BY <2>1, <3>1, ListParts DEF PingPeer
      <3> QED BY <3>2, MessageTyped DEF Msg
    <2>2. ASSUME NEW c \in Callers, SendInv(n, c)
          PROVE  \E y \in Ends, m \in Message : EnqueueUnlessClosed(y, m) /\ m.type \in {"INV", "PING"}
      <3>1. caller[n][c].todo \in Seq(Ends) /\ caller[n][c].hash \in Seq(Hashes)
        BY CallersTyped
      <3>2. /\ caller[n][c].step = "send"
            /\ EnqueueUnlessClosed(Head(caller[n][c].todo), Msg("INV", 0, caller[n][c].hash))
        BY <2>2 DEF SendInv
      <3>5. caller[n][c].todo # <<>>
        BY <3>2 DEF CallsOK
      <3>3. /\ Head(caller[n][c].todo) \in Ends
            /\ EnqueueUnlessClosed(Head(caller[n][c].todo), Msg("INV", 0, caller[n][c].hash))
        BY <3>1, <3>2, <3>5, ListParts
      <3>4. Msg("INV", 0, caller[n][c].hash) \in Message /\ Msg("INV", 0, caller[n][c].hash).type = "INV"
        BY <3>1, MessageTyped DEF Msg
      <3> QED BY <3>3, <3>4
    <2> QED BY <2>1, <2>2
  <1>2. m.type \notin {"GET_DATA", "DATA"}
    BY <1>1
  <1>3. \A x \in Ends : Keeps(e, x, queue[x], queue'[x])
    BY <1>1, <1>2, StillQueue
  <1>4. UNCHANGED <<task, wire, reqs>>
    BY DEF PingPeer, SendInv, connVars
  <1>5. \A x \in Ends : wire[x] \in Seq(Message)
    BY DEF TypeOK
  <1> QED BY <1>3, <1>4, <1>5, KeepsList DEF Still

LEMMA StillElse ==
  ASSUME TypeOK, NEW e \in Ends,
         \/ UNCHANGED vars
         \/ \E c \in Conns : Break(c)
         \/ \E n \in Nodes : HandleGossip(n) \/ CancelService(n) \/ DoPings(n) \/ DropPeer(n)
         \/ \E n \in Nodes, hash \in Hashes : HandleService(n, hash)
         \/ \E n \in Nodes, c \in Callers : AddAnn(n, c) \/ ListPeers(n, c)
  PROVE  UNCHANGED reqs /\ \A x \in Ends : Still(e, x)
  <1> DEFINE Same == UNCHANGED <<task, queue, wire, reqs>>
  <1>3. UNCHANGED vars => Same
    BY DEF vars, connVars
  <1>4. ASSUME NEW c \in Conns, Break(c) PROVE Same
    BY <1>4 DEF Break
  <1>5. ASSUME NEW n \in Nodes, HandleGossip(n) \/ CancelService(n) \/ DoPings(n) \/ DropPeer(n) PROVE Same
    BY <1>5 DEF HandleGossip, CancelService, DoPings, DropPeer, connVars
  <1>6. ASSUME NEW n \in Nodes, NEW hash \in Hashes, HandleService(n, hash) PROVE Same
    BY <1>6 DEF HandleService, connVars
  <1>7. ASSUME NEW n \in Nodes, NEW c \in Callers, AddAnn(n, c) \/ ListPeers(n, c) PROVE Same
    BY <1>7 DEF AddAnn, ListPeers, connVars
  <1> HIDE DEF Same
  <1>8. Same
    BY <1>3, <1>4, <1>5, <1>6, <1>7
  <1>1. UNCHANGED <<task, queue, wire, reqs>>
    BY <1>8 DEF Same
  <1>2. \A x \in Ends : wire[x] \in Seq(Message) /\ queue[x] \in Seq(Message)
    BY DEF TypeOK
  <1> QED BY <1>1, <1>2, KeepsList DEF Still

LEMMA StillStray ==
  ASSUME TypeOK, NEW e \in Ends, NEW s \in Strays, Stray(s), ~Strayed(e[1])'
  PROVE  UNCHANGED reqs /\ \A x \in {e, Other(e)} : Still(e, x)
  <1>1. s \in strayed' /\ wire' = [wire EXCEPT ![s.end] = Append(@, s.msg)] /\ UNCHANGED <<task, queue, reqs>>
    BY DEF Stray
  <1>2. s.end[1] # e[1]
    BY <1>1 DEF Strayed
  <1>3. ASSUME NEW x \in {e, Other(e)} PROVE x \in Ends /\ x # s.end
    BY <1>2, EndsTyped
  <1>4. \A x \in {e, Other(e)} : wire'[x] = wire[x] /\ wire[x] \in Seq(Message) /\ queue[x] \in Seq(Message)
    BY <1>1, <1>3 DEF TypeOK
  <1> QED BY <1>1, <1>4, KeepsList DEF Still

\* A task puts what it has in hand at the end of its queue or of its side of the transport.
LEMMA AnswersForward ==
  ASSUME TypeOK, TypeOK', NEW e \in Ends, AnswersOf(e), reqs'[e] = reqs[e],
         NEW y \in {e, Other(e)}, NEW w \in {"queue", "wire"}, task'[y].out = NoMsg,
         \A x \in {e, Other(e)} :
           /\ x # y => task'[x] = task[x]
           /\ queue'[x] = IF x = y /\ w = "queue" THEN Append(queue[x], task[x].out) ELSE queue[x]
           /\ wire'[x] = IF x = y /\ w = "wire" THEN Append(wire[x], task[x].out) ELSE wire[x]
  PROVE  AnswersOf(e)'
  <1> DEFINE L == IF w = "queue" THEN queue[y] ELSE wire[y]
             a == <<y, "task", 1>>
             b == <<y, w, Len(L) + 1>>
  <1>1. L \in Seq(Message) /\ y \in Ends /\ task[y].out \in Message
    BY EndsTyped, TaskTyped DEF TypeOK
  <1>2. \A i \in DOMAIN Append(L, task[y].out) :
          \/ i \in DOMAIN L /\ Append(L, task[y].out)[i] = L[i] /\ i # Len(L) + 1
          \/ i = Len(L) + 1 /\ Append(L, task[y].out)[i] = task[y].out
    <2> HIDE DEF L
    <2> QED BY <1>1
  <1>3. ASSUME NEW x \in {e, Other(e)}, NEW p, NEW m, Has(x, p, m)', Counts(e, x, m)
        PROVE  \/ p # a /\ p # b /\ Has(x, p, m)
               \/ p # a /\ p = b /\ Has(y, a, m) /\ x = y
    <2>1. ASSUME NEW i \in DOMAIN queue'[x], p = <<x, "queue", i>>, m = queue'[x][i]
          PROVE  \/ p # a /\ p # b /\ Has(x, p, m)
                 \/ p # a /\ p = b /\ Has(y, a, m) /\ x = y
      <3>1. CASE x = y /\ w = "queue"
        BY <1>2, <2>1, <3>1 DEF Has
      <3>2. CASE ~(x = y /\ w = "queue")
        <4>1. queue'[x] = queue[x]
          BY <3>2
        <4>2. p # a /\ p # b
          BY <2>1, <3>2
        <4> QED BY <2>1, <4>1, <4>2 DEF Has
      <3> QED BY <3>1, <3>2
    <2>2. ASSUME p = <<x, "task", 1>>, m = task'[x].out
          PROVE  p # a /\ p # b /\ Has(x, p, m)
      <3>1. x # y
        BY <1>3, <2>2 DEF NoMsg, Msg, Counts
      <3>2. p # a /\ p # b
        BY <2>2, <3>1
      <3> QED BY <2>2, <3>1, <3>2 DEF Has
    <2>3. ASSUME NEW i \in DOMAIN wire'[x], p = <<x, "wire", i>>, m = wire'[x][i]
          PROVE  \/ p # a /\ p # b /\ Has(x, p, m)
                 \/ p # a /\ p = b /\ Has(y, a, m) /\ x = y
      <3>1. CASE x = y /\ w = "wire"
        BY <1>2, <2>3, <3>1 DEF Has
      <3>2. CASE ~(x = y /\ w = "wire")
        <4>1. wire'[x] = wire[x]
          BY <3>2
        <4>2. p # a /\ p # b
          BY <2>3, <3>2
        <4> QED BY <2>3, <4>1, <4>2 DEF Has
      <3> QED BY <3>1, <3>2
    <2>4. \/ \E i \in DOMAIN queue'[x] : p = <<x, "queue", i>> /\ m = queue'[x][i]
          \/ p = <<x, "task", 1>> /\ m = task'[x].out
          \/ \E i \in DOMAIN wire'[x] : p = <<x, "wire", i>> /\ m = wire'[x][i]
      BY <1>3 DEF Has
    <2> HIDE DEF a, b
    <2> QED BY <2>1, <2>2, <2>3, <2>4
  <1> HIDE DEF a, b, L
  <1>4. ASSUME NEW x \in {e, Other(e)}, NEW p, NEW m, Has(x, p, m)', Counts(e, x, m)
        PROVE  m.id \in reqs'[e]
    BY <1>3, <1>4, HasAsked
  <1>5. \A x \in {e, Other(e)} : \A p, m : Has(x, p, m)' /\ Counts(e, x, m) =>
           /\ m.id \in reqs'[e]
           /\ p = a => p = b
           /\ p # b => Has(x, p, m)
           /\ p = b => \E z \in {e, Other(e)} : \E k : Has(z, a, k) /\ Counts(e, z, k) /\ k.id = m.id
    BY <1>3, <1>4
  <1> QED BY <1>5, AnswersPass

LEMMA AnswersWrite ==
  ASSUME TypeOK, TypeOK', NEW e \in Ends, AnswersOf(e), NEW y \in Ends, Write(y) \/ Reply(y)
  PROVE  AnswersOf(e)'
  <1>1. PICK w, t :
          /\ w \in {"queue", "wire"}
          /\ reqs' = reqs /\ t.out = NoMsg /\ task' = [task EXCEPT ![y] = t]
          /\ queue' = IF w = "queue" THEN [queue EXCEPT ![y] = Append(queue[y], task[y].out)] ELSE queue
          /\ wire' = IF w = "wire" THEN [wire EXCEPT ![y] = Append(wire[y], task[y].out)] ELSE wire
    <2>1. Write(y) => /\ reqs' = reqs /\ Serving.out = NoMsg /\ task' = [task EXCEPT ![y] = Serving]
                      /\ queue' = queue /\ wire' = [wire EXCEPT ![y] = Append(wire[y], task[y].out)]
      BY DEF Write, Serving, Task
    <2>2. Reply(y) => \E t : /\ reqs' = reqs /\ t.out = NoMsg /\ task' = [task EXCEPT ![y] = t]
                             /\ queue' = [queue EXCEPT ![y] = Append(queue[y], task[y].out)] /\ wire' = wire
      BY DEF Reply, Continue, Task, Enqueue, connVars
    <2>3. "queue" # "wire"
      OBVIOUS
    <2> QED BY SMTT(30), <2>1, <2>2, <2>3
  <1>2. \A x \in {e, Other(e)} : x \in Ends
    BY EndsTyped
  <1>3. \A x \in Ends :
           /\ x = y => task'[x] = t
           /\ x # y => task'[x] = task[x]
           /\ queue'[x] = IF x = y /\ w = "queue" THEN Append(queue[x], task[x].out) ELSE queue[x]
           /\ wire'[x] = IF x = y /\ w = "wire" THEN Append(wire[x], task[x].out) ELSE wire[x]
    BY <1>1 DEF TypeOK
  <1>4. CASE y \in {e, Other(e)}
    <2>1. /\ task'[y].out = NoMsg /\ reqs'[e] = reqs[e]
          /\ \A x \in {e, Other(e)} :
           /\ x # y => task'[x] = task[x]
           /\ queue'[x] = IF x = y /\ w = "queue" THEN Append(queue[x], task[x].out) ELSE queue[x]
           /\ wire'[x] = IF x = y /\ w = "wire" THEN Append(wire[x], task[x].out) ELSE wire[x]
      <3>1. task'[y].out = NoMsg /\ reqs'[e] = reqs[e]
        <4>1. task'[y] = t /\ t.out = NoMsg /\ reqs' = reqs
          BY <1>1, <1>3
        <4> QED BY <4>1
      <3>2. ASSUME NEW x \in {e, Other(e)}
            PROVE  /\ x # y => task'[x] = task[x]
                   /\ queue'[x] = IF x = y /\ w = "queue" THEN Append(queue[x], task[x].out) ELSE queue[x]
                   /\ wire'[x] = IF x = y /\ w = "wire" THEN Append(wire[x], task[x].out) ELSE wire[x]
        <4>1. x \in Ends
          BY <1>2
        <4> QED BY <1>3, <4>1
      <3> QED BY <3>1, <3>2
    <2> QED BY <1>1, <1>4, <2>1, AnswersForward
  <1>5. CASE y \notin {e, Other(e)}
    <2>1. \A x \in {e, Other(e)} : Still(e, x)
      <3> TAKE x \in {e, Other(e)}
      <3>1. x # y /\ x \in Ends
        BY <1>2, <1>5
      <3>2. queue'[x] = queue[x] /\ wire'[x] = wire[x] /\ task'[x] = task[x]
        BY <1>3, <3>1
      <3>3. queue[x] \in Seq(Message) /\ wire[x] \in Seq(Message)
        BY <3>1 DEF TypeOK
      <3> QED BY <3>2, <3>3, KeepsList DEF Still
    <2> QED BY <1>1, <2>1, AnswersStay
  <1> QED BY <1>4, <1>5

\* The task of y takes the head of L, the list w of z, in hand, and may answer it or strike
\* off the request it answers.
Takes(e, y, z, w, L) ==
  /\ L = IF w = "queue" THEN queue[z] ELSE wire[z]
  /\ L # <<>>
  /\ \/ reqs'[e] = reqs[e]
     \/ Counts(e, z, Head(L)) /\ reqs'[e] = reqs[e] \ {Head(L).id} /\ ~Counts(e, y, task'[y].out)
  /\ Counts(e, y, task'[y].out) => Counts(e, z, Head(L)) /\ Head(L).id = task'[y].out.id
  /\ \A x \in {e, Other(e)} :
       /\ x # y => task'[x] = task[x]
       /\ IF x = z /\ w = "queue" THEN queue'[x] = Tail(L) ELSE queue'[x] \in {queue[x], <<>>}
       /\ IF x = z /\ w = "wire" THEN wire'[x] = Tail(L) ELSE wire'[x] = wire[x]

LEMMA AnswersTake ==
  ASSUME TypeOK, TypeOK', NEW e \in Ends, AnswersOf(e),
         NEW y \in {e, Other(e)}, NEW z \in {e, Other(e)}, NEW w \in {"queue", "wire"},
         NEW L \in Seq(Message), Takes(e, y, z, w, L)
  PROVE  AnswersOf(e)'
  <1> DEFINE b == <<y, "task", 1>>
             a == <<z, w, 1>>
             Stays(x, p, m) == p # b /\ (\A i : p # <<z, w, i>>) /\ Has(x, p, m)
             Shifts(x, p, m) == \E i \in Nat \ {0} : p = <<z, w, i>> /\ Has(x, <<z, w, i + 1>>, m)
             Comes(x, p, m) == p = b /\ x = y /\ m = task'[y].out
  <1>0. /\ L = IF w = "queue" THEN queue[z] ELSE wire[z]
        /\ L # <<>>
        /\ \/ reqs'[e] = reqs[e]
           \/ Counts(e, z, Head(L)) /\ reqs'[e] = reqs[e] \ {Head(L).id} /\ ~Counts(e, y, task'[y].out)
        /\ Counts(e, y, task'[y].out) => Counts(e, z, Head(L)) /\ Head(L).id = task'[y].out.id
        /\ \A x \in {e, Other(e)} :
             /\ x # y => task'[x] = task[x]
             /\ IF x = z /\ w = "queue" THEN queue'[x] = Tail(L) ELSE queue'[x] \in {queue[x], <<>>}
             /\ IF x = z /\ w = "wire" THEN wire'[x] = Tail(L) ELSE wire'[x] = wire[x]
    BY DEF Takes
  <1> USE <1>0
  <1>1. Has(z, a, Head(L))
    <2>1. 1 \in DOMAIN L /\ L[1] = Head(L)
      OBVIOUS
    <2> QED BY <2>1 DEF Has
  <1>2. \A i \in DOMAIN Tail(L) : i \in Nat \ {0} /\ i + 1 \in DOMAIN L /\ Tail(L)[i] = L[i + 1]
    OBVIOUS
  <1>3. ASSUME NEW x \in {e, Other(e)}, NEW p, NEW m, Has(x, p, m)', Counts(e, x, m)
        PROVE  Stays(x, p, m) \/ Shifts(x, p, m) \/ Comes(x, p, m)
    <2>1. ASSUME NEW i \in DOMAIN queue'[x], p = <<x, "queue", i>>, m = queue'[x][i]
          PROVE  Stays(x, p, m) \/ Shifts(x, p, m)
      <3>1. CASE x = z /\ w = "queue"
        <4>1. L = queue[x] /\ i \in Nat \ {0} /\ i + 1 \in DOMAIN L /\ m = L[i + 1]
          BY <1>2, <2>1, <3>1
        <4>2. Has(x, <<z, w, i + 1>>, m)
          BY <3>1, <4>1 DEF Has
        <4> QED BY <2>1, <3>1, <4>1, <4>2
      <3>2. CASE ~(x = z /\ w = "queue")
        <4>1. queue'[x] \in {queue[x], <<>>}
          BY <3>2
        <4>2. DOMAIN <<>> = {}
          OBVIOUS
        <4>3. queue'[x] = queue[x]
          BY <2>1, <4>1, <4>2
        <4>4. p # b /\ \A j : p # <<z, w, j>>
          BY <2>1, <3>2
        <4>5. Has(x, p, m)
          BY <2>1, <4>3 DEF Has
        <4> QED BY <4>4, <4>5
      <3> QED BY <3>1, <3>2
    <2>2. ASSUME p = <<x, "task", 1>>, m = task'[x].out
          PROVE  Stays(x, p, m) \/ Comes(x, p, m)
      <3>1. CASE x = y
        BY <2>2, <3>1
      <3>2. CASE x # y
        <4>1. p # b /\ \A j : p # <<z, w, j>>
          BY <2>2, <3>2
        <4>2. Has(x, p, m)
          BY <2>2, <3>2 DEF Has
        <4> QED BY <4>1, <4>2
      <3> QED BY <3>1, <3>2
    <2>3. ASSUME NEW i \in DOMAIN wire'[x], p = <<x, "wire", i>>, m = wire'[x][i]
          PROVE  Stays(x, p, m) \/ Shifts(x, p, m)
      <3>1. CASE x = z /\ w = "wire"
        <4>1. L = wire[x] /\ i \in Nat \ {0} /\ i + 1 \in DOMAIN L /\ m = L[i + 1]
          BY <1>2, <2>3, <3>1
        <4>2. Has(x, <<z, w, i + 1>>, m)
          BY <3>1, <4>1 DEF Has
        <4> QED BY <2>3, <3>1, <4>1, <4>2
      <3>2. CASE ~(x = z /\ w = "wire")
        <4>1. wire'[x] = wire[x]
          BY <3>2
        <4>2. p # b /\ \A j : p # <<z, w, j>>
          BY <2>3, <3>2
        <4>3. Has(x, p, m)
          BY <2>3, <4>1 DEF Has
        <4> QED BY <4>2, <4>3
      <3> QED BY <3>1, <3>2
    <2>4. \/ \E i \in DOMAIN queue'[x] : p = <<x, "queue", i>> /\ m = queue'[x][i]
          \/ p = <<x, "task", 1>> /\ m = task'[x].out
          \/ \E i \in DOMAIN wire'[x] : p = <<x, "wire", i>> /\ m = wire'[x][i]
      BY <1>3 DEF Has
    <2> HIDE DEF Stays, Shifts, Comes
    <2> QED BY <2>1, <2>2, <2>3, <2>4
  <1>4. ASSUME NEW x \in {e, Other(e)}, NEW q, NEW m, Has(x, q, m), Counts(e, x, m), q # a
        PROVE  m.id \in reqs'[e]
    <2>1. m.id \in reqs[e]
      BY <1>4, HasAsked
    <2>2. CASE reqs'[e] = reqs[e]
      BY <2>1, <2>2
    <2>3. CASE Counts(e, z, Head(L)) /\ reqs'[e] = reqs[e] \ {Head(L).id}
      <3>1. q \in UnderWay(e) /\ At(q) = m /\ a \in UnderWay(e) /\ At(a) = Head(L)
        BY <1>1, <1>4, <2>3, HasIs DEF Finds
      <3>2. m.id # Head(L).id
        BY <1>4, <3>1 DEF AnswersOf
      <3> QED BY <2>1, <2>3, <3>2
    <2> QED BY <2>2, <2>3
  <1>5. ASSUME NEW x \in {e, Other(e)}, NEW p, NEW m, Has(x, p, m)', Counts(e, x, m)
        PROVE  m.id \in reqs'[e] /\ Shifted(e, z, w, b, x, p, m)
    <2>1. ASSUME Stays(x, p, m) PROVE m.id \in reqs'[e] /\ Shifted(e, z, w, b, x, p, m)
      <3>1. p # a /\ Has(x, p, m)
        BY <2>1
      <3>2. Shifted(e, z, w, b, x, p, m)
        BY <2>1 DEF Shifted
      <3>3. m.id \in reqs'[e]
        BY <1>4, <1>5, <3>1
      <3> QED BY <3>2, <3>3
    <2>2. ASSUME Shifts(x, p, m) PROVE m.id \in reqs'[e] /\ Shifted(e, z, w, b, x, p, m)
      <3>1. PICK i \in Nat \ {0} : p = <<z, w, i>> /\ Has(x, <<z, w, i + 1>>, m)
        BY <2>2
      <3>2. i + 1 # 1
        OBVIOUS
      <3>3. <<z, w, i + 1>> # a
        BY <3>2
      <3>4. m.id \in reqs'[e]
        BY <1>4, <1>5, <3>1, <3>3
      <3>5. Shifted(e, z, w, b, x, p, m)
        BY <3>1 DEF Shifted
      <3> QED BY <3>4, <3>5
    <2>3. ASSUME Comes(x, p, m) PROVE m.id \in reqs'[e] /\ Shifted(e, z, w, b, x, p, m)
      <3>1. Counts(e, z, Head(L)) /\ Head(L).id = m.id /\ reqs'[e] = reqs[e]
        BY <1>5, <2>3
      <3>2. m.id \in reqs'[e]
        BY <1>1, <3>1, HasAsked
      <3>3. Shifted(e, z, w, b, x, p, m)
        BY <1>1, <2>3, <3>1 DEF Shifted
      <3> QED BY <3>2, <3>3
    <2> HIDE DEF Stays, Shifts, Comes
    <2> QED BY <1>3, <1>5, <2>1, <2>2, <2>3
  <1>6. \A i : b # <<z, w, i>>
    OBVIOUS
  <1> HIDE DEF b
  <1> QED BY <1>5, <1>6, AnswersShift

LEMMA AnswersRecv ==
  ASSUME TypeOK, TypeOK', NEW e \in Ends, AnswersOf(e), NEW y \in Ends, Recv(y)
  PROVE  AnswersOf(e)'
  <1> DEFINE L == queue[y]
             t == Task("write", <<>>, Head(L))
  <1>1. /\ L # <<>> /\ task' = [task EXCEPT ![y] = t] /\ queue' = [queue EXCEPT ![y] = Tail(L)]
        /\ reqs' = reqs /\ wire' = wire
    BY DEF Recv, connVars
  <1>2. t.out = Head(L) /\ L \in Seq(Message)
    BY DEF Task, TypeOK
  <1> HIDE DEF t
  <1>3. \A x \in {e, Other(e)} : x \in Ends
    BY EndsTyped
  <1>4. \A x \in Ends : /\ task'[x] = IF x = y THEN t ELSE task[x]
                        /\ queue'[x] = IF x = y THEN Tail(L) ELSE queue[x]
    BY <1>1 DEF TypeOK
  <1> HIDE DEF L
  <1>5. CASE y \in {e, Other(e)}
    <2> DEFINE w == "queue"
    <2>1. L = IF w = "queue" THEN queue[y] ELSE wire[y]
      BY DEF L
    <2>2. Counts(e, y, task'[y].out) => Counts(e, y, Head(L)) /\ Head(L).id = task'[y].out.id
      BY <1>2, <1>4
    <2>3. ASSUME NEW x \in {e, Other(e)}
          PROVE  /\ x # y => task'[x] = task[x]
                 /\ IF x = y /\ w = "queue" THEN queue'[x] = Tail(L) ELSE queue'[x] \in {queue[x], <<>>}
                 /\ IF x = y /\ w = "wire" THEN wire'[x] = Tail(L) ELSE wire'[x] = wire[x]
      BY <1>1, <1>3, <1>4
    <2>4. reqs'[e] = reqs[e]
      BY <1>1
    <2>5. w \in {"queue", "wire"}
      OBVIOUS
    <2>6. Takes(e, y, y, w, L)
      BY <1>1, <2>1, <2>2, <2>3, <2>4 DEF Takes
    <2> HIDE DEF w
    <2> QED BY <1>2, <1>5, <2>5, <2>6, AnswersTake
  <1>6. CASE y \notin {e, Other(e)}
    <2>1. \A x \in {e, Other(e)} : Still(e, x)
      <3> TAKE x \in {e, Other(e)}
      <3>1. x # y /\ x \in Ends
        BY <1>3, <1>6
      <3>2. queue'[x] = queue[x] /\ wire'[x] = wire[x] /\ task'[x] = task[x]
        BY <1>1, <1>4, <3>1
      <3>3. queue[x] \in Seq(Message) /\ wire[x] \in Seq(Message)
        BY <3>1 DEF TypeOK
      <3> QED BY <3>2, <3>3, KeepsList DEF Still
    <2> QED BY <1>1, <2>1, AnswersStay
  <1> QED BY <1>5, <1>6

\* What handling a message does to the task and to the requests.
LEMMA ReadEffect ==
  ASSUME TypeOK, NEW y \in Ends, Read(y), NEW h, h = Head(wire[Other(y)])
  PROVE  \E t :
           /\ task' = [task EXCEPT ![y] = t]
           /\ t.out.type # "GET_DATA"
           /\ t.out.type = "DATA" /\ y[2] = "Incoming" => h.type = "GET_DATA" /\ h.id = t.out.id
           /\ queue' = queue \/ queue' = [queue EXCEPT ![y] = <<>>]
           /\ \/ reqs' = reqs
              \/ y[2] = "Outgoing" /\ h.type = "DATA" /\ reqs' = [reqs EXCEPT ![y] = @ \ {h.id}]
  <1> DEFINE Effect == \E t :
           /\ task' = [task EXCEPT ![y] = t]
           /\ t.out.type # "GET_DATA"
           /\ t.out.type = "DATA" /\ y[2] = "Incoming" => h.type = "GET_DATA" /\ h.id = t.out.id
           /\ queue' = queue \/ queue' = [queue EXCEPT ![y] = <<>>]
           /\ \/ reqs' = reqs
              \/ y[2] = "Outgoing" /\ h.type = "DATA" /\ reqs' = [reqs EXCEPT ![y] = @ \ {h.id}]
  <1>1. \/ HandleHello(y, h) \/ HandleGetData(y, h) \/ HandlePing(y, h)
        \/ HandleAck(y, h) \/ HandleInv(y, h) \/ HandleData(y, h)
    BY DEF Read
  <1>2. Serving.out.type = "none" /\ Task("closed", <<>>, NoMsg).out.type = "none"
    BY DEF Serving, Task, NoMsg, Msg
  <1>3. ASSUME reqs' = reqs, Goes(y, Serving) \/ Closed(y) PROVE Effect
    BY <1>2, <1>3 DEF Goes, Closed
  <1>4. ASSUME reqs' = reqs, NEW t, Goes(y, t), t.out.type \in {"none", "ACK"} PROVE Effect
    BY <1>4 DEF Goes
  <1>5. CASE HandleHello(y, h) \/ HandleAck(y, h)
    BY <1>3, <1>5 DEF HandleHello, HandleAck
  <1>6. CASE HandlePing(y, h)
    <2>1. Task("reply", <<>>, Msg("ACK", h.id, <<>>)).out.type = "ACK"
      BY DEF Task, Msg
    <2> QED BY <1>4, <1>6, <2>1 DEF HandlePing
  <1>7. CASE HandleInv(y, h)
    <2>1. Continue("ask", h.body).out.type = "none"
      BY DEF Continue, Task, NoMsg, Msg
    <2> QED BY <1>3, <1>4, <1>7, <2>1 DEF HandleInv
  <1>8. CASE HandleGetData(y, h)
    <2>1. PICK d : Goes(y, Task("reply", <<>>, Msg("DATA", h.id, d))) /\ h.type = "GET_DATA" /\ reqs' = reqs
      BY <1>8 DEF HandleGetData
    <2>2. Task("reply", <<>>, Msg("DATA", h.id, d)).out.type = "DATA" /\ Task("reply", <<>>, Msg("DATA", h.id, d)).out.id = h.id
      BY DEF Task, Msg
    <2> QED BY <2>1, <2>2 DEF Goes
  <1>9. CASE HandleData(y, h)
    <2>1. CASE y[2] = "Outgoing"
      <3>1. h.type = "DATA" /\ reqs' = [reqs EXCEPT ![y] = @ \ {h.id}]
        BY <1>9, <2>1 DEF HandleData
      <3>2. Goes(y, Task("announce", <<>>, h)) \/ Closed(y)
        BY <1>9, <2>1 DEF HandleData
      <3>3. Task("announce", <<>>, h).out = h
        BY DEF Task
      <3> QED BY <1>2, <2>1, <3>1, <3>2, <3>3 DEF Goes, Closed
    <2>2. CASE y[2] = "Incoming"
      <3>1. reqs' = reqs /\ Goes(y, Serving)
        BY <1>9, <2>2 DEF HandleData, TypeOK
      <3> QED BY <1>3, <3>1
    <2> QED BY <2>1, <2>2, EndsTyped
  <1> HIDE DEF Effect
  <1> QED BY <1>1, <1>5, <1>6, <1>7, <1>8, <1>9

LEMMA AnswersRead ==
  ASSUME TypeOK, TypeOK', NEW e \in Ends, e[2] = "Outgoing", AnswersOf(e), NEW y \in Ends, Read(y)
  PROVE  AnswersOf(e)'
  <1> DEFINE z == Other(y)
             L == wire[z]
             h == Head(L)
             w == "wire"
  <1>1. z \in Ends /\ L \in Seq(Message) /\ L # <<>> /\ wire' = [wire EXCEPT ![z] = Tail(L)]
    BY EndsTyped DEF Read, TypeOK
  <1>2. PICK t :
           /\ task' = [task EXCEPT ![y] = t]
           /\ t.out.type # "GET_DATA"
           /\ t.out.type = "DATA" /\ y[2] = "Incoming" => h.type = "GET_DATA" /\ h.id = t.out.id
           /\ queue' = queue \/ queue' = [queue EXCEPT ![y] = <<>>]
           /\ \/ reqs' = reqs
              \/ y[2] = "Outgoing" /\ h.type = "DATA" /\ reqs' = [reqs EXCEPT ![y] = @ \ {h.id}]
    BY ReadEffect
  <1> HIDE DEF z, L, h
  <1>3. \A x \in {e, Other(e)} : x \in Ends
    BY EndsTyped
  <1>4. \A x \in Ends : /\ task'[x] = IF x = y THEN t ELSE task[x]
                        /\ queue'[x] \in {queue[x], <<>>}
                        /\ wire'[x] = IF x = z THEN Tail(L) ELSE wire[x]
    BY <1>1, <1>2 DEF TypeOK
  <1>5. CASE y \in {e, Other(e)}
    <2>1. z \in {e, Other(e)} /\ z = Other(y)
      BY <1>5, EndsTyped DEF z
    <2>2. Counts(e, y, task'[y].out) => Counts(e, z, h) /\ h.id = task'[y].out.id
      <3>1. SUFFICES ASSUME Counts(e, y, t.out) PROVE Counts(e, z, h) /\ h.id = t.out.id
        BY <1>4
      <3>2. t.out.type = "DATA" /\ y = Other(e)
        BY <1>2, <3>1 DEF Counts
      <3>3. y[2] = "Incoming" /\ z = e
        BY <2>1, <3>2, EndsTyped
      <3> QED BY <1>2, <3>2, <3>3 DEF Counts
    <2>3. \/ reqs'[e] = reqs[e]
          \/ Counts(e, z, h) /\ reqs'[e] = reqs[e] \ {h.id} /\ ~Counts(e, y, task'[y].out)
      <3>1. CASE y = e
        <4>1. ~Counts(e, y, task'[y].out)
          BY <1>2, <1>4, <3>1, EndsTyped DEF Counts
        <4>2. h.type = "DATA" => Counts(e, z, h)
          BY <2>1, <3>1 DEF Counts
        <4>3. reqs' = reqs \/ (h.type = "DATA" /\ reqs'[e] = reqs[e] \ {h.id})
          BY <1>2, <3>1 DEF TypeOK
        <4> QED BY <4>1, <4>2, <4>3
      <3>2. CASE y # e
        <4>1. reqs'[e] = reqs[e]
          BY <1>2, <3>2 DEF TypeOK
        <4> QED BY <4>1
      <3> QED BY <3>1, <3>2
    <2>4. ASSUME NEW x \in {e, Other(e)}
          PROVE  /\ x # y => task'[x] = task[x]
                 /\ IF x = z /\ w = "queue" THEN queue'[x] = Tail(L) ELSE queue'[x] \in {queue[x], <<>>}
                 /\ IF x = z /\ w = "wire" THEN wire'[x] = Tail(L) ELSE wire'[x] = wire[x]
      BY <1>3, <1>4
    <2>5. w \in {"queue", "wire"} /\ L = IF w = "queue" THEN queue[z] ELSE wire[z]
      BY DEF L
    <2> HIDE DEF w
    <2>6. Takes(e, y, z, w, L)
      BY <1>1, <2>2, <2>3, <2>4, <2>5 DEF Takes, h
    <2> QED BY <1>1, <1>5, <2>1, <2>5, <2>6, AnswersTake
  <1>6. CASE y \notin {e, Other(e)}
    <2>1. z \notin {e, Other(e)}
      BY <1>6, EndsTyped DEF z
    <2>2. \A x \in {e, Other(e)} : Still(e, x)
      <3> TAKE x \in {e, Other(e)}
      <3>1. x # y /\ x # z /\ x \in Ends
        BY <1>3, <1>6, <2>1
      <3>2. queue'[x] \in {queue[x], <<>>} /\ wire'[x] = wire[x] /\ task'[x] = task[x]
        BY <1>4, <3>1
      <3>3. queue[x] \in Seq(Message) /\ wire[x] \in Seq(Message)
        BY <3>1 DEF TypeOK
      <3> QED BY <3>2, <3>3, KeepsList DEF Still
    <2>3. reqs'[e] = reqs[e]
      BY <1>2, <1>6 DEF TypeOK
    <2> QED BY <2>2, <2>3, AnswersStay
  <1> QED BY <1>5, <1>6

LEMMA AnswersAsk ==
  ASSUME TypeOK, TypeOK', IdsOK, NEW e \in Ends, AnswersOf(e), NEW y \in Ends, Ask(y)
  PROVE  AnswersOf(e)'
  <1> DEFINE id == msgId[NodeOf(y)]
  <1>1. /\ UNCHANGED <<queue, wire>>
        /\ \E t : /\ task' = [task EXCEPT ![y] = t]
                  /\ \/ reqs' = reqs /\ t.out = NoMsg
                     \/ reqs' = [reqs EXCEPT ![y] = @ \cup {id}] /\ t.out.type = "GET_DATA" /\ t.out.id = id
    <2> DEFINE rest == Tail(task[y].todo)
               g == Msg("GET_DATA", id, <<Head(task[y].todo)>>)
    <2>1. Continue("ask", rest).out = NoMsg /\ Task("reply", rest, g).out = g
      BY DEF Continue, Task
    <2>2. g.type = "GET_DATA" /\ g.id = id
      BY DEF Msg
    <2>3. UNCHANGED <<queue, wire>>
      BY DEF Ask
    <2>4. \/ task' = [task EXCEPT ![y] = Continue("ask", rest)] /\ reqs' = reqs
          \/ task' = [task EXCEPT ![y] = Task("reply", rest, g)] /\ reqs' = [reqs EXCEPT ![y] = @ \cup {id}]
      BY DEF Ask
    <2> HIDE DEF rest, g
    <2> QED BY <2>1, <2>2, <2>3, <2>4
  <1>2. PICK t : /\ task' = [task EXCEPT ![y] = t]
                 /\ \/ reqs' = reqs /\ t.out = NoMsg
                    \/ reqs' = [reqs EXCEPT ![y] = @ \cup {id}] /\ t.out.type = "GET_DATA" /\ t.out.id = id
    BY <1>1
  <1> HIDE DEF id
  <1>3. \A x \in {e, Other(e)} : x \in Ends /\ queue[x] \in Seq(Message) /\ wire[x] \in Seq(Message)
    BY EndsTyped DEF TypeOK
  <1>4. \A x \in Ends : task'[x] = IF x = y THEN t ELSE task[x]
    BY <1>2 DEF TypeOK
  <1>5. CASE y # e \/ (reqs' = reqs /\ t.out = NoMsg)
    <2>1. reqs'[e] = reqs[e]
      BY <1>2, <1>5 DEF TypeOK
    <2>2. ASSUME NEW x \in {e, Other(e)} PROVE Counts(e, x, task'[x].out) => task'[x].out = task[x].out
      <3>1. CASE x # y
        BY <1>3, <1>4, <3>1
      <3>2. CASE x = y /\ t.out = NoMsg
        BY <1>3, <1>4, <3>2 DEF Counts, NoMsg, Msg
      <3>3. CASE x = y /\ x # e /\ t.out.type = "GET_DATA"
        BY <1>3, <1>4, <3>3 DEF Counts
      <3> QED BY <1>2, <1>5, <3>1, <3>2, <3>3
    <2>3. \A x \in {e, Other(e)} : Still(e, x)
      BY <1>1, <1>3, <2>2, KeepsList DEF Still
    <2> QED BY <2>1, <2>3, AnswersStay
  <1>6. CASE y = e /\ reqs' = [reqs EXCEPT ![y] = @ \cup {id}] /\ t.out.type = "GET_DATA" /\ t.out.id = id
    <2> DEFINE b == <<e, "task", 1>>
    <2>1. reqs'[e] = reqs[e] \cup {id} /\ id \notin reqs[e]
      <3>1. reqs'[e] = reqs[e] \cup {id}
        BY <1>6 DEF TypeOK
      <3>2. id \in Nat /\ \A i \in reqs[e] : i < id
        BY <1>6, EndsTyped DEF id, TypeOK, IdsOK
      <3>3. ~(id < id)
        BY <3>2
      <3> QED BY <3>1, <3>2, <3>3
    <2>2. ASSUME NEW x \in {e, Other(e)}, NEW p, NEW m, Has(x, p, m)', Counts(e, x, m)
          PROVE  \/ p = b /\ m.id = id
                 \/ Has(x, p, m)
      <3>1. CASE x = e
        <4>1. queue'[x] = queue[x] /\ wire'[x] = wire[x] /\ task'[x] = t
          BY <1>1, <1>3, <1>4, <1>6, <3>1
        <4> QED BY <1>6, <2>2, <3>1, <4>1 DEF Has
      <3>2. CASE x # e
        <4>1. queue'[x] = queue[x] /\ wire'[x] = wire[x] /\ task'[x] = task[x]
          BY <1>1, <1>3, <1>4, <1>6, <3>2
        <4> QED BY <2>2, <4>1 DEF Has
      <3> QED BY <3>1, <3>2
    <2> HIDE DEF b
    <2>3. ASSUME NEW p \in UnderWay(e)'
          PROVE  \/ p = b /\ At(p)'.id = id
                 \/ p \in UnderWay(e) /\ At(p)' = At(p) /\ At(p).id \in reqs[e]
      <3>1. \E x \in {e, Other(e)} : \E m : Has(x, p, m)' /\ Counts(e, x, m) /\ At(p)' = m
        BY <2>3, HasIsNext DEF Finds
      <3>2. PICK x, m : x \in {e, Other(e)} /\ Has(x, p, m)' /\ Counts(e, x, m) /\ At(p)' = m
        BY <3>1
      <3>3. CASE Has(x, p, m)
        <4>1. p \in UnderWay(e) /\ At(p) = m
          BY <3>2, <3>3, HasIs DEF Finds
        <4> QED BY <3>2, <4>1 DEF AnswersOf
      <3> QED BY <2>2, <3>2, <3>3
    <2>4. \A p \in UnderWay(e)' : At(p)'.id \in reqs'[e]
      BY <2>1, <2>3
    <2>5. ASSUME NEW p \in UnderWay(e)', NEW q \in UnderWay(e)', At(p)'.id = At(q)'.id PROVE p = q
      BY <2>1, <2>3, <2>5 DEF AnswersOf
    <2> QED BY <2>4, <2>5 DEF AnswersOf
  <1> QED BY <1>2, <1>5, <1>6

\* The sequence of ids goes up whenever one is taken.
LEMMA IdsStep ==
  ASSUME TypeOK, CallsOK, IdsOK, [Next]_vars
  PROVE  IdsOK'
  <1>1. ASSUME UNCHANGED <<reqs, msgId>> PROVE IdsOK'
    BY <1>1 DEF IdsOK
  <1>2. ASSUME NEW y \in Ends, Ask(y) PROVE IdsOK'
    <2> DEFINE n == NodeOf(y)
    <2>1. \/ UNCHANGED <<reqs, msgId>>
          \/ msgId' = [msgId EXCEPT ![n] = @ + 1] /\ reqs' = [reqs EXCEPT ![y] = @ \cup {msgId[n]}]
      BY <1>2 DEF Ask
    <2>2. CASE msgId' = [msgId EXCEPT ![n] = @ + 1] /\ reqs' = [reqs EXCEPT ![y] = @ \cup {msgId[n]}]
      <3> SUFFICES ASSUME NEW e \in Ends, NEW i \in reqs'[e] PROVE i < msgId'[NodeOf(e)]
        BY DEF IdsOK
      <3>1. n \in Nodes /\ NodeOf(e) \in Nodes /\ msgId[n] \in Nat /\ msgId[NodeOf(e)] \in Nat
        BY EndsTyped DEF TypeOK
      <3>2. msgId'[NodeOf(e)] = IF NodeOf(e) = n THEN msgId[n] + 1 ELSE msgId[NodeOf(e)]
        BY <2>2, <3>1 DEF TypeOK
      <3>3. i \in reqs[e] \/ (e = y /\ i = msgId[n])
        BY <2>2 DEF TypeOK
      <3>4. CASE i \in reqs[e]
        <4>1. i \in Nat /\ i < msgId[NodeOf(e)]
          BY <3>4 DEF IdsOK, TypeOK
        <4> QED BY <3>1, <3>2, <4>1
      <3>5. CASE e = y /\ i = msgId[n]
        BY <3>1, <3>2, <3>5
      <3> QED BY <3>3, <3>4, <3>5
    <2> QED BY <1>1, <2>1, <2>2
  <1>3. ASSUME NEW y \in Ends, Read(y) PROVE IdsOK'
    <2>1. msgId' = msgId
      BY <1>3 DEF Read
    <2>2. PICK h : reqs' = reqs \/ reqs' = [reqs EXCEPT ![y] = @ \ {h.id}]
      BY <1>3, ReadEffect
    <2>3. \A e \in Ends : reqs'[e] \subseteq reqs[e]
      BY <2>2 DEF TypeOK
    <2> QED BY <2>1, <2>3 DEF IdsOK
  <1> DEFINE Same == UNCHANGED <<reqs, msgId>>
  <1>4. ASSUME NEW c \in Conns, Connect(c) \/ Break(c) PROVE Same
    BY <1>4 DEF Connect, Break, connVars
  <1>5. ASSUME NEW y \in Ends, Greet(y) \/ Write(y) \/ Reply(y) \/ Announce(y) \/ Recv(y) \/ Fail(y) PROVE Same
    BY <1>5 DEF Greet, CreatePeer, Hello, HashList, OfferChunk, Write, Reply, Announce, Recv, Fail, connVars
  <1>6. ASSUME NEW n \in Nodes,
               HandleGossip(n) \/ CancelService(n) \/ DoPings(n) \/ PingPeer(n) \/ DropPeer(n)
        PROVE  Same
    BY <1>6 DEF HandleGossip, CancelService, DoPings, PingPeer, DropPeer, connVars
  <1>7. ASSUME NEW n \in Nodes, NEW hash \in Hashes, HandleService(n, hash) PROVE Same
    BY <1>7 DEF HandleService, connVars
  <1>8. ASSUME NEW n \in Nodes, NEW c \in Callers, AddAnnStep(n, c) PROVE Same
    BY <1>8 DEF AddAnnStep, AddAnn, ListPeers, SendInv, connVars
  <1>9. ASSUME NEW s \in Strays, Stray(s) PROVE Same
    BY <1>9 DEF Stray
  <1>10. UNCHANGED vars => Same
    BY DEF vars, connVars
  <1>11. Same => IdsOK'
    BY <1>1
  <1> HIDE DEF Same
  <1> QED BY <1>2, <1>3, <1>4, <1>5, <1>6, <1>7, <1>8, <1>9, <1>10, <1>11 DEF Next, Serve, PingStep

\* A step keeps the answers of an end that dialled expected, unless it is a stray of its
\* connection.
LEMMA AnswersStep ==
  ASSUME TypeOK, TypeOK', CallsOK, IdsOK, [Next]_vars,
         NEW e \in Ends, e[2] = "Outgoing", AnswersOf(e), ~Strayed(e[1])'
  PROVE  AnswersOf(e)'
  <1> DEFINE Done == AnswersOf(e)'
             Stay == UNCHANGED reqs /\ \A x \in Ends : Still(e, x)
  <1>1. Stay => Done
    BY AnswersStay, EndsTyped
  <1>2. ASSUME NEW y \in Ends, Serve(y) \/ Recv(y) \/ Read(y)
        PROVE  Stay \/ Done
    <2>1. CASE Write(y) \/ Reply(y)
      BY <2>1, AnswersWrite
    <2>2. CASE Ask(y)
      BY <2>2, AnswersAsk
    <2>3. CASE Announce(y)
      BY <2>3, StillGreet
    <2>4. CASE Recv(y)
      BY <2>4, AnswersRecv
    <2>5. CASE Read(y)
      BY <2>5, AnswersRead
    <2> QED BY <1>2, <2>1, <2>2, <2>3, <2>4, <2>5 DEF Serve
  <1>3. ASSUME NEW y \in Ends, Greet(y) \/ Fail(y)
        PROVE  Stay
    BY <1>3, StillGreet, StillFail
  <1>4. ASSUME NEW c \in Conns, Connect(c)
        PROVE  Stay
    BY <1>4, StillConnect
  <1>5. ASSUME NEW n \in Nodes, PingPeer(n) \/ \E c \in Callers : SendInv(n, c)
        PROVE  Stay
    BY <1>5, StillSend
  <1>6. ASSUME \/ UNCHANGED vars
               \/ \E c \in Conns : Break(c)
               \/ \E n \in Nodes : HandleGossip(n) \/ CancelService(n) \/ DoPings(n) \/ DropPeer(n)
               \/ \E n \in Nodes, hash \in Hashes : HandleService(n, hash)
               \/ \E n \in Nodes, c \in Callers : AddAnn(n, c) \/ ListPeers(n, c)
        PROVE  Stay
    BY <1>6, StillElse
  <1>7. ASSUME NEW s \in Strays, Stray(s)
        PROVE  Done
    BY <1>7, StillStray, AnswersStay
  <1> HIDE DEF Done, Stay
  <1>8. Stay \/ Done
    BY <1>2, <1>3, <1>4, <1>5, <1>6, <1>7 DEF Next, PingStep, AddAnnStep
  <1>9. Done
    BY <1>1, <1>8
  <1> QED BY <1>9 DEF Done

\* What a stray message has done to a connection is not undone.
LEMMA StrayedGrows ==
  ASSUME [Next]_vars
  PROVE  strayed \subseteq strayed'
  <1> DEFINE Grows == strayed \subseteq strayed'
  <1>1. ASSUME NEW c \in Conns, Connect(c) \/ Break(c) PROVE Grows
    BY <1>1 DEF Connect, Break, connVars
  <1>2. ASSUME NEW y \in Ends, Greet(y) \/ Serve(y) \/ Recv(y) \/ Read(y) \/ Fail(y) PROVE Grows
    BY <1>2 DEF Greet, CreatePeer, Hello, HashList, OfferChunk, Serve, Write, Ask, Reply, Announce,
         Recv, Read, Fail, connVars
  <1>3. ASSUME NEW n \in Nodes, HandleGossip(n) \/ CancelService(n) \/ DoPings(n) \/ PingStep(n)
        PROVE  Grows
    BY <1>3 DEF HandleGossip, CancelService, DoPings, PingStep, PingPeer, DropPeer, connVars
  <1>4. ASSUME NEW n \in Nodes, NEW hash \in Hashes, HandleService(n, hash) PROVE Grows
    BY <1>4 DEF HandleService, connVars
  <1>5. ASSUME NEW n \in Nodes, NEW c \in Callers, AddAnnStep(n, c) PROVE Grows
    BY <1>5 DEF AddAnnStep, AddAnn, ListPeers, SendInv, connVars
  <1>6. ASSUME NEW s \in Strays, Stray(s) PROVE Grows
    BY <1>6 DEF Stray
  <1>7. UNCHANGED vars => Grows
    BY DEF vars, connVars
  <1> HIDE DEF Grows
  <1>8. Grows
    BY <1>1, <1>2, <1>3, <1>4, <1>5, <1>6, <1>7 DEF Next
  <1> QED BY <1>8 DEF Grows

\* No answer of a peer that keeps to the protocol is unexpected: handle_data never finds
\* an id that is not outstanding, and never finds one twice.
THEOREM AnswersAwaited == Spec => []AnswersExpected
  <1> DEFINE Inv == TypeOK /\ CallsOK /\ TasksOK /\ IdsOK /\ AnswersExpected
  <1>1. Init => Inv
    <2> SUFFICES ASSUME Init PROVE Inv
      OBVIOUS
    <2>1. TypeOK /\ CallsOK
      BY InitTyped
    <2>2. TasksOK /\ IdsOK
      BY DEF Init, TasksOK, IdsOK, Task
    <2>3. ASSUME NEW e \in Ends, NEW p \in UnderWay(e) PROVE FALSE
      <3>1. PICK x, m : x \in {e, Other(e)} /\ Has(x, p, m) /\ Counts(e, x, m)
        BY <2>3, HasIs DEF Finds
      <3>2. x \in Ends
        BY <3>1, EndsTyped
      <3>3. queue[x] = <<>> /\ wire[x] = <<>> /\ task[x].out = NoMsg /\ DOMAIN <<>> = {}
        BY <3>2 DEF Init, Task
      <3>4. m = NoMsg
        BY <3>1, <3>3 DEF Has
      <3> QED BY <3>1, <3>4 DEF Counts, NoMsg, Msg
    <2>4. AnswersExpected
      BY <2>3 DEF AnswersExpected
    <2> QED BY <2>1, <2>2, <2>4
  <1>2. Inv /\ [Next]_vars => Inv'
    <2> SUFFICES ASSUME Inv, [Next]_vars PROVE Inv'
      OBVIOUS
    <2>1. TypeOK' /\ CallsOK' /\ TasksOK'
      BY TypedStep DEF Typed
    <2>2. IdsOK'
      BY IdsStep
    <2>3. ASSUME NEW e \in Ends, e[2] = "Outgoing", ~Strayed(e[1])' PROVE AnswersOf(e)'
      <3>1. strayed \subseteq strayed'
        BY StrayedGrows
      <3>2. ~Strayed(e[1])
        BY <2>3, <3>1 DEF Strayed
      <3>3. AnswersOf(e)
        BY <2>3, <3>2 DEF AnswersExpected, AnswersOf
      <3> QED BY <2>1, <2>3, <3>3, AnswersStep
    <2>4. AnswersExpected'
      BY <2>3 DEF AnswersExpected, AnswersOf
    <2> QED BY <2>1, <2>2, <2>4
  <1>3. Inv => AnswersExpected
    OBVIOUS
  <1> QED BY <1>1, <1>2, <1>3, PTL DEF Spec
=============================================================================
