------------------------------- MODULE Locks --------------------------------
(***************************************************************************)
(* The order in which the tasks of the snode take the locks of its table,  *)
(* nodes and links.  Between two of its critical sections a task holds     *)
(* nothing, and what it does next is any of them.                          *)
(*                                                                         *)
(* External: parking_lot, whose read locks wait behind a waiting writer.   *)
(***************************************************************************)
EXTENDS Naturals, Sequences, FiniteSets, SequencesExt

CONSTANTS Thread,
          Sections,  \* what each thread may do: names of sections
          Peers      \* per node, the nodes its links are from

VARIABLES section,  \* per thread: its critical section, a sequence of steps still to take
          name,     \* what it is called
          held,     \* what it holds, as pairs of a lock and a mode
          wants     \* what it waits for, or nothing

vars == <<section, name, held, wants>>

NodeId == DOMAIN Peers
Links == { e \in NodeId \X NodeId : e[2] \in Peers[e[1]] }

\* A lock is a kind and what it belongs to; a link has a node and a peer.
Server == <<"server.mut_state", "">>
Table == <<"nodes_by_ip", "">>
Anns == <<"anns", "">>
Mut(n) == <<"node.mut_state", n>>
Inward(n) == <<"inward_links_by_ip", n>>
Slots(n, p) == <<"link_state", <<n, p>>>>
LinkMut(n, p) == <<"link.mut_state", <<n, p>>>>

\* A step takes a lock, and holds on to those it keeps.
Take(lock, mode, keep) == [lock |-> lock, mode |-> mode, keep |-> keep]
Read(lock, keep) == Take(lock, "read", keep)
Write(lock, keep) == Take(lock, "write", keep)

-----------------------------------------------------------------------------
(* handle_announce_impl.                                                   *)

AddNode(n) == << Write(Table, {}), Read(Mut(n), {Table}), Write(Anns, {Table, Mut(n)}) >>
AddAnnouncement(n) == << Write(Mut(n), {}), Write(Anns, {Mut(n)}) >>

\* Mutant of UpdateLink: the link is locked first.
UpdateLinkFirst(n, p) == << Write(LinkMut(n, p), {}), Write(Inward(n), {LinkMut(n, p)}) >>
UpdateLink(n, p) == << Write(Inward(n), {}), Write(LinkMut(n, p), {Inward(n)}) >>

LinkStateUpdate(n, p) ==
  << Write(Inward(n), {}), Write(Slots(n, p), {}), Write(LinkMut(n, p), {Slots(n, p)}) >>

StateHash(n) == << Write(Mut(n), {}) >>

\* The table is read for a moment only.
Lookup == << Read(Table, {}) >>

Announce ==
  {AddNode(n) : n \in NodeId} \cup {AddAnnouncement(n) : n \in NodeId} \cup {StateHash(n) : n \in NodeId}
    \cup {UpdateLink(e[1], e[2]) : e \in Links} \cup {LinkStateUpdate(e[1], e[2]) : e \in Links} \cup {Lookup}

-----------------------------------------------------------------------------
(* keep_table_clean, which has a node's state read-locked when forget_node *)
(* locks it again; a thread that holds a lock twice has it in two steps.   *)

Clean(n) ==
  << Write(Table, {}), Read(Mut(n), {Table}), Read(Mut(n), {Table, Mut(n)}), Write(Anns, {Table, Mut(n)}) >>

(* anns_dump and nodes_info. *)
Dump(n) == << Read(Table, {}), Read(Mut(n), {Table}) >>
Info(n) == << Read(Table, {}), Read(Mut(n), {}) >>

(* build_node_graph, and a hop of compute_routing_label, which has both    *)
(* nodes' links locked.                                                    *)
Route(n, p) ==
  << Write(Server, {}), Write(Inward(n), {Server}), Read(Table, {Server, Inward(n)}),
     Write(Inward(p), {Server, Inward(n)}), Write(LinkMut(n, p), {Server, Inward(n)}) >>

(* "gr". *)
Confirm(n) == << Write(Inward(n), {}) >>

(* handle_ni_with_ip and handle_walk. *)
NodeInfo(n, p) ==
  << Read(Mut(n), {}), Write(Inward(n), {Mut(n)}), Write(LinkMut(n, p), {Mut(n), Inward(n)}),
     Write(Slots(n, p), {Mut(n), Inward(n), LinkMut(n, p)}) >>
Walk(n, p) ==
  << Read(Mut(n), {}), Write(Inward(n), {}), Read(Table, {Inward(n)}), Write(LinkMut(n, p), {Inward(n)}) >>

Steps(s) ==
  CASE s = "announce" -> Announce
    [] s = "clean" -> {Clean(n) : n \in NodeId}
    [] s = "dump" -> {Dump(n) : n \in NodeId} \cup {Info(n) : n \in NodeId}
    [] s = "route" -> {Route(e[1], e[2]) : e \in Links}
    [] s = "gr" -> {Confirm(n) : n \in NodeId}
    [] s = "ni" -> {NodeInfo(e[1], e[2]) : e \in Links}
    [] s = "walk" -> {Walk(e[1], e[2]) : e \in Links}

-----------------------------------------------------------------------------
Idle == "idle"
Nothing == <<>>

Init ==
  /\ section = [t \in Thread |-> <<>>]
  /\ name = [t \in Thread |-> Idle]
  /\ held = [t \in Thread |-> {}]
  /\ wants = [t \in Thread |-> Nothing]

Begin(t) ==
  /\ name[t] = Idle
  /\ \E s \in Sections[t] :
       /\ name' = [name EXCEPT ![t] = s]
       /\ \E steps \in Steps(s) : section' = [section EXCEPT ![t] = steps]
  /\ UNCHANGED <<held, wants>>

Waits(t, lock, mode) == wants[t] # Nothing /\ wants[t].lock = lock /\ wants[t].mode = mode

\* Who keeps a thread from a step: who holds the lock, and a writer that waits for it before a
\* reader.  Holding a lock twice, a thread is in its own way unless it only reads.
InTheWay(t, step) ==
  { u \in Thread :
      \/ \E h \in held[u] : /\ h[1] = step.lock /\ "write" \in {h[2], step.mode}
                            /\ u = t => h[1] \in step.keep
      \/ u # t /\ step.mode = "read" /\ Waits(u, step.lock, "write") }

Kept(t, step) == { h \in held[t] : h[1] \in step.keep }
Holding(t, step) == held' = [held EXCEPT ![t] = Kept(t, step) \cup {<<step.lock, step.mode>>}]

\* What is not kept is unlocked first.
Step(t) ==
  /\ wants[t] = Nothing /\ section[t] # <<>>
  /\ LET step == Head(section[t]) IN
       IF InTheWay(t, step) = {} THEN Holding(t, step) /\ UNCHANGED wants
       ELSE /\ wants' = [wants EXCEPT ![t] = step]
            /\ held' = [held EXCEPT ![t] = Kept(t, step)]
  /\ section' = [section EXCEPT ![t] = Tail(@)]
  /\ UNCHANGED name

Grant(t) ==
  /\ wants[t] # Nothing /\ InTheWay(t, wants[t]) = {}
  /\ Holding(t, wants[t])
  /\ wants' = [wants EXCEPT ![t] = Nothing]
  /\ UNCHANGED <<section, name>>

End(t) ==
  /\ name[t] # Idle /\ section[t] = <<>> /\ wants[t] = Nothing
  /\ held' = [held EXCEPT ![t] = {}]
  /\ name' = [name EXCEPT ![t] = Idle]
  /\ UNCHANGED <<section, wants>>

Next == \E t \in Thread : Begin(t) \/ Step(t) \/ Grant(t) \/ End(t)

Spec == Init /\ [][Next]_vars

-----------------------------------------------------------------------------
\* A lock that is written is nobody else's, and nobody has it twice but to read it.
TypeOK ==
  /\ \A t \in Thread : name[t] \in Sections[t] \cup {Idle}
  /\ \A t, u \in Thread : \A h \in held[t], g \in held[u] :
       (t # u /\ h[1] = g[1]) => h[2] = "read" /\ g[2] = "read"

Stuck(threads) == \A t \in threads : wants[t] # Nothing /\ InTheWay(t, wants[t]) \cap threads # {}

\* Threads wait on each other for good only when one of them asks for a node's info, which takes
\* the locks of a link the other way round than announcements do; when the cleaner reads a node's
\* state twice with a writer between; or when a node is its own peer, whose links the routing
\* locks twice.  (handle_ni_with_ip, keep_table_clean, build_node_graph)
OnlyKnownDeadlocks ==
  \A threads \in (SUBSET Thread) \ {{}} :
    Stuck(threads) =>
      \/ \E t \in threads : name[t] = "ni"
      \/ \E t \in threads : name[t] = "clean" /\ wants[t].lock \in { h[1] : h \in held[t] }
      \/ \E t \in threads : name[t] = "route" /\ wants[t].lock \in { h[1] : h \in held[t] }
=============================================================================
