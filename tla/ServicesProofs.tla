---------------------------- MODULE ServicesProofs --------------------------
(***************************************************************************)
(* Proofs about the services, for any values of their constants.           *)
(*                                                                         *)
(* Of the locks: the snode's tasks wait on each other for good only in the *)
(* three known ways, for any threads, whatever each of them may do, and    *)
(* any links between the nodes.  All other steps take the locks in one     *)
(* order; the routing alone takes a second lock of the same kind, behind a *)
(* lock only one thread can have.                                          *)
(*                                                                         *)
(* Of the other parts: what ChainProofs, NodeProofs and RoutingProofs say  *)
(* of their modules.                                                       *)
(***************************************************************************)
EXTENDS Services, TLAPS

Names == {"announce", "clean", "dump", "route", "gr", "ni", "walk"}
Kind == {"server.mut_state", "nodes_by_ip", "anns", "node.mut_state", "inward_links_by_ip",
         "link_state", "link.mut_state"}
Edge == NodeId \X NodeId
Lock == Kind \X ({""} \cup NodeId \cup Edge)
Mode == {"read", "write"}
LockStep == [lock : Lock, mode : Mode, keep : SUBSET Lock]

\* The order in which the locks are taken.
Rank(lock) ==
  IF lock[1] = "server.mut_state" THEN 1 ELSE
  IF lock[1] = "inward_links_by_ip" THEN 2 ELSE
  IF lock[1] \in {"nodes_by_ip", "link_state"} THEN 3 ELSE
  IF lock[1] = "node.mut_state" THEN 4 ELSE 5

\* A step of the section s takes a lock above those it keeps; one that does not is known.
Above(s, step, lock) ==
  \/ Rank(lock) < Rank(step.lock)
  \/ lock = step.lock /\ s \in {"clean", "route"}
  \/ s = "route" /\ step.mode = "write" /\ Server \in step.keep /\ Rank(lock) = Rank(step.lock)
Ordered(s, step) == s = "ni" \/ \A lock \in step.keep : Above(s, step, lock)

\* After the step, the thread has the server's lock to write.
ServerHeld == <<Server, "write">>
Passes(step) == Server \in step.keep \/ (step.lock = Server /\ step.mode = "write")

Rest(s, rest) ==
  /\ rest \in Seq(LockStep)
  /\ \A i \in DOMAIN rest : Ordered(s, rest[i])
  /\ \A i \in DOMAIN rest : (i + 1 \in DOMAIN rest /\ Server \in rest[i + 1].keep) => Passes(rest[i])

\* A thread in the section s, with the steps rest left, that has the locks have and waits for want.
Waiting(s, have, want) ==
  /\ Ordered(s, want)
  /\ \A h \in have : h[1] \in want.keep
  /\ Server \in want.keep => ServerHeld \in have
Fine(s, rest, have, want) ==
  /\ Rest(s, rest)
  /\ (rest # <<>> /\ Server \in rest[1].keep) => IF want = Nothing THEN ServerHeld \in have ELSE Passes(want)
  /\ want # Nothing => Waiting(s, have, want)
  /\ s = Idle => rest = <<>> /\ want = Nothing

Inv ==
  /\ name \in [Thread -> Names \cup {Idle}]
  /\ section \in [Thread -> Seq(LockStep)]
  /\ held \in [Thread -> SUBSET (Lock \X Mode)]
  /\ wants \in [Thread -> LockStep \cup {Nothing}]
  /\ \A t \in Thread : Fine(name[t], section[t], held[t], wants[t])
  /\ \A t, u \in Thread : ServerHeld \in held[t] /\ ServerHeld \in held[u] => t = u

-----------------------------------------------------------------------------
(* The sections.                                                           *)

LEMMA LocksAreLocks ==
  /\ Server \in Lock /\ Table \in Lock /\ Anns \in Lock
  /\ \A n \in NodeId : Mut(n) \in Lock /\ Inward(n) \in Lock
  /\ \A n, p \in NodeId : Slots(n, p) \in Lock /\ LinkMut(n, p) \in Lock
BY DEF Lock, Kind, Edge, Server, Table, Anns, Mut, Inward, Slots, LinkMut

LEMMA Ranks ==
  /\ Rank(Server) = 1 /\ Rank(Table) = 3 /\ Rank(Anns) = 5
  /\ \A n : Rank(Mut(n)) = 4 /\ Rank(Inward(n)) = 2
  /\ \A n, p : Rank(Slots(n, p)) = 3 /\ Rank(LinkMut(n, p)) = 5
BY DEF Rank, Server, Table, Anns, Mut, Inward, Slots, LinkMut

LEMMA RankType == \A lock : Rank(lock) \in 1..5
BY DEF Rank

LEMMA TakeIsStep ==
  ASSUME NEW lock \in Lock, NEW keep \in SUBSET Lock
  PROVE  /\ Read(lock, keep) \in LockStep /\ Write(lock, keep) \in LockStep
         /\ Read(lock, keep).lock = lock /\ Write(lock, keep).lock = lock
         /\ Read(lock, keep).keep = keep /\ Write(lock, keep).keep = keep
         /\ Write(lock, keep).mode = "write" /\ Read(lock, keep).mode = "read"
BY DEF Read, Write, Take, LockStep, Mode

\* A section, and that its first step keeps nothing.
Good(s, steps) == Rest(s, steps) /\ steps # <<>> /\ Server \notin steps[1].keep

LEMMA One ==
  ASSUME NEW s, NEW a \in LockStep, a.keep = {}
  PROVE  Good(s, <<a>>)
BY DEF Good, Rest, Ordered

LEMMA Two ==
  ASSUME NEW s, NEW a \in LockStep, NEW b \in LockStep, a.keep = {}, Ordered(s, b), Server \notin b.keep
  PROVE  Good(s, <<a, b>>)
BY DEF Good, Rest, Ordered

LEMMA Three ==
  ASSUME NEW s, NEW a \in LockStep, NEW b \in LockStep, NEW c \in LockStep, a.keep = {},
         Ordered(s, b), Ordered(s, c), Server \notin b.keep, Server \notin c.keep
  PROVE  Good(s, <<a, b, c>>)
BY DEF Good, Rest, Ordered

LEMMA Four ==
  ASSUME NEW s, NEW a \in LockStep, NEW b \in LockStep, NEW c \in LockStep, NEW d \in LockStep, a.keep = {},
         Ordered(s, b), Ordered(s, c), Ordered(s, d),
         Server \notin b.keep, Server \notin c.keep, Server \notin d.keep
  PROVE  Good(s, <<a, b, c, d>>)
BY DEF Good, Rest, Ordered

LEMMA Five ==
  ASSUME NEW s, NEW a \in LockStep, NEW b \in LockStep, NEW c \in LockStep, NEW d \in LockStep,
         NEW e \in LockStep, a.keep = {}, Passes(a), Server \in b.keep, Server \in c.keep, Server \in d.keep,
         Ordered(s, b), Ordered(s, c), Ordered(s, d), Ordered(s, e)
  PROVE  Good(s, <<a, b, c, d, e>>)
BY DEF Good, Rest, Ordered, Passes

LEMMA SectionsAreGood ==
  ASSUME NEW s \in Names, NEW steps \in Steps(s)
  PROVE  Good(s, steps)
<1>0. /\ \A n \in NodeId : {Mut(n), Inward(n), Table} \subseteq Lock /\ Server # Table /\ Server # Mut(n)
                           /\ Server # Inward(n)
      /\ \A n, p \in NodeId : {Slots(n, p), LinkMut(n, p)} \subseteq Lock /\ Server # Slots(n, p)
                              /\ Server # LinkMut(n, p)
      /\ Server # Anns
  BY LocksAreLocks DEF Server, Table, Anns, Mut, Inward, Slots, LinkMut
<1>1. \A n \in NodeId : Good(s, AddNode(n))
  BY <1>0, LocksAreLocks, Ranks, TakeIsStep, Three DEF AddNode, Ordered, Above
<1>2. \A n \in NodeId : Good(s, AddAnnouncement(n))
  BY <1>0, LocksAreLocks, Ranks, TakeIsStep, Two DEF AddAnnouncement, Ordered, Above
<1>3. \A n, p \in NodeId : Good(s, UpdateLink(n, p))
  BY <1>0, LocksAreLocks, Ranks, TakeIsStep, Two DEF UpdateLink, Ordered, Above
<1>4. \A n, p \in NodeId : Good(s, LinkStateUpdate(n, p))
  BY <1>0, LocksAreLocks, Ranks, TakeIsStep, Three DEF LinkStateUpdate, Ordered, Above
<1>5. (\A n \in NodeId : Good(s, StateHash(n))) /\ Good(s, Lookup)
  BY <1>0, LocksAreLocks, TakeIsStep, One DEF StateHash, Lookup
<1>6. s = "announce" => Good(s, steps)
  <2> SUFFICES ASSUME s = "announce"  PROVE  Good(s, steps)
    OBVIOUS
  <2>1. steps \in Announce
    BY DEF Steps
  <2>2. \A e \in Links : e[1] \in NodeId /\ e[2] \in NodeId
    BY DEF Links
  <2> QED BY <1>1, <1>2, <1>3, <1>4, <1>5, <2>1, <2>2 DEF Announce
<1>7. s = "clean" => \A n \in NodeId : Good(s, Clean(n))
  BY <1>0, LocksAreLocks, Ranks, TakeIsStep, Four DEF Clean, Ordered, Above
<1>8. \A n \in NodeId : Good(s, Dump(n)) /\ Good(s, Info(n))
  BY <1>0, LocksAreLocks, Ranks, TakeIsStep, Two DEF Dump, Info, Ordered, Above
<1>9. s = "route" => \A n, p \in NodeId : Good(s, Route(n, p))
  <2> SUFFICES ASSUME s = "route", NEW n \in NodeId, NEW p \in NodeId  PROVE  Good(s, Route(n, p))
    OBVIOUS
  <2> DEFINE a == Write(Server, {})
             b == Write(Inward(n), {Server})
             c == Read(Table, {Server, Inward(n)})
             d == Write(Inward(p), {Server, Inward(n)})
             f == Write(LinkMut(n, p), {Server, Inward(n)})
  <2>1. a \in LockStep /\ b \in LockStep /\ c \in LockStep /\ d \in LockStep /\ f \in LockStep
    BY LocksAreLocks, TakeIsStep
  <2>2. /\ a.keep = {} /\ a.lock = Server /\ a.mode = "write"
        /\ b.keep = {Server} /\ c.keep = {Server, Inward(n)} /\ d.keep = {Server, Inward(n)}
        /\ f.keep = {Server, Inward(n)}
        /\ b.lock = Inward(n) /\ c.lock = Table /\ d.lock = Inward(p) /\ f.lock = LinkMut(n, p)
        /\ d.mode = "write"
    BY LocksAreLocks, TakeIsStep
  <2> HIDE DEF a, b, c, d, f
  <2>3. Ordered(s, b) /\ Ordered(s, c) /\ Ordered(s, d) /\ Ordered(s, f) /\ Passes(a)
    BY <2>2, Ranks DEF Ordered, Above, Passes
  <2>4. Good(s, <<a, b, c, d, f>>)
    BY <2>1, <2>2, <2>3, Five
  <2> QED BY <2>4 DEF Route, a, b, c, d, f
<1>10. \A n \in NodeId : Good(s, Confirm(n))
  BY LocksAreLocks, TakeIsStep, One DEF Confirm
<1>11. s = "ni" => \A n, p \in NodeId : Good(s, NodeInfo(n, p))
  BY <1>0, LocksAreLocks, TakeIsStep, Four DEF NodeInfo, Ordered
<1>12. \A n, p \in NodeId : Good(s, Walk(n, p))
  BY <1>0, LocksAreLocks, Ranks, TakeIsStep, Four DEF Walk, Ordered, Above
<1>13. \A e \in Links : e[1] \in NodeId /\ e[2] \in NodeId
  BY DEF Links
<1>14. s \in Names
  OBVIOUS
<1> QED BY <1>6, <1>7, <1>8, <1>9, <1>10, <1>11, <1>12, <1>13, <1>14 DEF Steps, Names

-----------------------------------------------------------------------------
(* The steps of a thread.                                                  *)

LEMMA Begun ==
  ASSUME NEW s \in Names, NEW steps \in Steps(s), NEW have
  PROVE  Fine(s, steps, have, Nothing) /\ steps \in Seq(LockStep)
BY SectionsAreGood DEF Fine, Good, Rest, Names, Idle

\* The rest of a section is one, and its first step needs what the step before it left.
LEMMA RestOfSection ==
  ASSUME NEW s, NEW rest, Rest(s, rest), rest # <<>>
  PROVE  /\ Head(rest) \in LockStep /\ Head(rest) = rest[1] /\ Ordered(s, Head(rest))
         /\ Rest(s, Tail(rest))
         /\ Tail(rest) # <<>> /\ Server \in Tail(rest)[1].keep => Passes(Head(rest))
<1>1. rest \in Seq(LockStep)
  BY DEF Rest
<1>2. Len(rest) \in Nat /\ Len(rest) > 0 /\ DOMAIN rest = 1..Len(rest)
  BY <1>1
<1>3. Head(rest) = rest[1] /\ 1 \in DOMAIN rest /\ Head(rest) \in LockStep
  BY <1>1, <1>2
<1>4. Tail(rest) \in Seq(LockStep) /\ Len(Tail(rest)) = Len(rest) - 1 /\ DOMAIN Tail(rest) = 1..Len(Tail(rest))
  BY <1>1
<1>5. \A i \in 1..Len(rest) - 1 : Tail(rest)[i] = rest[i + 1]
  BY <1>1
<1>6. \A i \in DOMAIN Tail(rest) : /\ i + 1 \in DOMAIN rest /\ Tail(rest)[i] = rest[i + 1]
                                   /\ i + 1 \in DOMAIN Tail(rest) => i + 1 + 1 \in DOMAIN rest
  BY <1>2, <1>4, <1>5
<1>7. Rest(s, Tail(rest))
  BY <1>4, <1>6 DEF Rest
<1>8. Tail(rest) # <<>> => 1 \in DOMAIN Tail(rest)
  BY <1>4
<1> QED BY <1>3, <1>6, <1>7, <1>8 DEF Rest

\* What a thread has once it has the lock of a step, and while it waits for it.
KeptOf(have, step) == { h \in have : h[1] \in step.keep }
After(have, step) == KeptOf(have, step) \cup {<<step.lock, step.mode>>}

LEMMA ServerAfter ==
  ASSUME NEW have, NEW step, Server \in step.keep => ServerHeld \in have, Passes(step)
  PROVE  ServerHeld \in After(have, step)
BY DEF After, KeptOf, ServerHeld, Passes

LEMMA Granted ==
  ASSUME NEW s, NEW rest, NEW have, Fine(s, rest, have, Nothing), rest # <<>>
  PROVE  s # Idle /\ Fine(s, Tail(rest), After(have, Head(rest)), Nothing)
<1>1. Rest(s, rest) /\ s # Idle /\ (Server \in rest[1].keep => ServerHeld \in have)
  BY DEF Fine
<1>2. Tail(rest) # <<>> /\ Server \in Tail(rest)[1].keep => ServerHeld \in After(have, Head(rest))
  BY <1>1, RestOfSection, ServerAfter
<1> QED BY <1>1, <1>2, RestOfSection DEF Fine

LEMMA Blocked ==
  ASSUME NEW s, NEW rest, NEW have, Fine(s, rest, have, Nothing), rest # <<>>
  PROVE  s # Idle /\ Fine(s, Tail(rest), KeptOf(have, Head(rest)), Head(rest))
<1>1. Rest(s, rest) /\ s # Idle /\ (Server \in rest[1].keep => ServerHeld \in have)
  BY DEF Fine
<1>2. Waiting(s, KeptOf(have, Head(rest)), Head(rest))
  BY <1>1, RestOfSection DEF Waiting, KeptOf, ServerHeld
<1>3. Server \in Head(rest).keep => ServerHeld \in KeptOf(have, Head(rest))
  BY <1>2 DEF Waiting
<1>4. Head(rest) \in LockStep => Head(rest) # Nothing
  BY DEF LockStep, Nothing
<1> QED BY <1>1, <1>2, <1>3, <1>4, RestOfSection DEF Fine

LEMMA GrantedLate ==
  ASSUME NEW s, NEW rest, NEW have, NEW want, Fine(s, rest, have, want), want # Nothing
  PROVE  Fine(s, rest, After(have, want), Nothing)
BY ServerAfter DEF Fine, Waiting

\* The locks that a thread is given are nobody else's to write.
LEMMA StaysAlone ==
  ASSUME Inv, NEW t \in Thread, NEW step \in LockStep, InTheWay(t, step) = {},
         held' = [held EXCEPT ![t] = After(held[t], step)]
  PROVE  /\ held' \in [Thread -> SUBSET (Lock \X Mode)]
         /\ \A u, v \in Thread : ServerHeld \in held'[u] /\ ServerHeld \in held'[v] => u = v
<1>1. held \in [Thread -> SUBSET (Lock \X Mode)]
  BY DEF Inv
<1>2. After(held[t], step) \in SUBSET (Lock \X Mode)
  BY <1>1 DEF After, KeptOf, LockStep
<1>3. held'[t] = After(held[t], step) /\ \A u \in Thread \ {t} : held'[u] = held[u]
  BY <1>1
<1>4. ASSUME NEW u \in Thread \ {t}, ServerHeld \in held[u], ServerHeld \in After(held[t], step)
      PROVE  FALSE
  <2>1. ServerHeld \notin held[t]
    BY <1>4 DEF Inv
  <2>2. ServerHeld = <<step.lock, step.mode>>
    BY <1>4, <2>1 DEF After, KeptOf
  <2>3. ServerHeld[1] = step.lock /\ ServerHeld[2] = "write"
    BY <2>2 DEF ServerHeld
  <2>4. u \in InTheWay(t, step)
    BY <1>4, <2>3 DEF InTheWay
  <2> QED BY <2>4
<1>5. \A u, v \in Thread : ServerHeld \in held'[u] /\ ServerHeld \in held'[v] => u = v
  BY <1>3, <1>4 DEF Inv
<1> QED BY <1>1, <1>2, <1>5

\* A step of one thread leaves the others as they are.
LEMMA OneMoves ==
  ASSUME Inv, NEW t \in Thread,
         \A u \in Thread \ {t} : /\ name'[u] = name[u] /\ section'[u] = section[u]
                                 /\ held'[u] = held[u] /\ wants'[u] = wants[u],
         name' \in [Thread -> Names \cup {Idle}], section' \in [Thread -> Seq(LockStep)],
         held' \in [Thread -> SUBSET (Lock \X Mode)], wants' \in [Thread -> LockStep \cup {Nothing}],
         \A u, v \in Thread : ServerHeld \in held'[u] /\ ServerHeld \in held'[v] => u = v,
         Fine(name'[t], section'[t], held'[t], wants'[t])
  PROVE  Inv'
<1>1. \A u \in Thread : Fine(name'[u], section'[u], held'[u], wants'[u])
  BY DEF Inv
<1> QED BY <1>1 DEF Inv

LEMMA Inductive ==
  ASSUME \A t \in Thread : Sections[t] \subseteq Names
  PROVE  Inv /\ [Next]_vars => Inv'
<1> SUFFICES ASSUME Inv, [Next]_vars  PROVE  Inv'
  OBVIOUS
<1>0. /\ name \in [Thread -> Names \cup {Idle}] /\ section \in [Thread -> Seq(LockStep)]
      /\ held \in [Thread -> SUBSET (Lock \X Mode)] /\ wants \in [Thread -> LockStep \cup {Nothing}]
      /\ \A t \in Thread : Fine(name[t], section[t], held[t], wants[t])
      /\ \A t, u \in Thread : ServerHeld \in held[t] /\ ServerHeld \in held[u] => t = u
  BY DEF Inv
<1>1. ASSUME NEW t \in Thread, Begin(t)  PROVE  Inv'
  <2>0. PICK s \in Names :
          name' = [name EXCEPT ![t] = s] /\ \E steps \in Steps(s) : section' = [section EXCEPT ![t] = steps]
    BY <1>1 DEF Begin
  <2>1. PICK steps \in Steps(s) : section' = [section EXCEPT ![t] = steps]
    BY <2>0
  <2>2. wants[t] = Nothing /\ UNCHANGED <<held, wants>>
    BY <1>0, <1>1 DEF Begin, Fine
  <2>3. steps \in Seq(LockStep) /\ Fine(s, steps, held[t], Nothing)
    BY Begun
  <2>4. /\ name' \in [Thread -> Names \cup {Idle}] /\ section' \in [Thread -> Seq(LockStep)]
        /\ name'[t] = s /\ section'[t] = steps
        /\ \A u \in Thread \ {t} : name'[u] = name[u] /\ section'[u] = section[u]
    BY <1>0, <2>0, <2>1, <2>3
  <2> QED BY <1>0, <2>2, <2>3, <2>4, OneMoves
<1>2. ASSUME NEW t \in Thread, Step(t)  PROVE  Inv'
  <2> DEFINE step == Head(section[t])
  <2>1. /\ wants[t] = Nothing /\ section[t] # <<>> /\ section' = [section EXCEPT ![t] = Tail(section[t])]
        /\ name' = name
    BY <1>2 DEF Step
  <2>2. Fine(name[t], section[t], held[t], Nothing) /\ section[t] \in Seq(LockStep)
    BY <1>0, <2>1
  <2>3. step \in LockStep /\ Tail(section[t]) \in Seq(LockStep)
    BY <2>1, <2>2
  <2>4. /\ section' \in [Thread -> Seq(LockStep)] /\ section'[t] = Tail(section[t])
        /\ \A u \in Thread \ {t} : section'[u] = section[u]
    BY <1>0, <2>1, <2>3
  <2>5. CASE InTheWay(t, step) = {}
    <3>1. held' = [held EXCEPT ![t] = After(held[t], step)] /\ wants' = wants
      BY <1>2, <2>5 DEF Step, Holding, Kept, After, KeptOf
    <3> HIDE DEF step
    <3>2. held'[t] = After(held[t], step) /\ \A u \in Thread \ {t} : held'[u] = held[u]
      BY <1>0, <3>1
    <3>3. Fine(name[t], Tail(section[t]), After(held[t], step), Nothing)
      BY <2>1, <2>2, Granted DEF step
    <3>4. /\ held' \in [Thread -> SUBSET (Lock \X Mode)]
          /\ \A u, v \in Thread : ServerHeld \in held'[u] /\ ServerHeld \in held'[v] => u = v
      BY <2>3, <2>5, <3>1, StaysAlone
    <3> QED BY <1>0, <2>1, <2>4, <3>1, <3>2, <3>3, <3>4, OneMoves
  <2>6. CASE InTheWay(t, step) # {}
    <3>1. held' = [held EXCEPT ![t] = KeptOf(held[t], step)] /\ wants' = [wants EXCEPT ![t] = step]
      BY <1>2, <2>6 DEF Step, Kept, KeptOf
    <3> HIDE DEF step
    <3>2. KeptOf(held[t], step) \subseteq held[t]
      BY DEF KeptOf
    <3>3. /\ held' \in [Thread -> SUBSET (Lock \X Mode)] /\ wants' \in [Thread -> LockStep \cup {Nothing}]
          /\ held'[t] = KeptOf(held[t], step) /\ wants'[t] = step
          /\ \A u \in Thread \ {t} : held'[u] = held[u] /\ wants'[u] = wants[u]
      BY <1>0, <2>3, <3>1, <3>2
    <3>4. Fine(name[t], Tail(section[t]), KeptOf(held[t], step), step)
      BY <2>1, <2>2, Blocked DEF step
    <3>5. \A u \in Thread : held'[u] \subseteq held[u]
      BY <3>2, <3>3
    <3>6. \A u, v \in Thread : ServerHeld \in held'[u] /\ ServerHeld \in held'[v] => u = v
      BY <1>0, <3>5
    <3> QED BY <1>0, <2>1, <2>4, <3>3, <3>4, <3>6, OneMoves
  <2> QED BY <2>5, <2>6
<1>3. ASSUME NEW t \in Thread, Grant(t)  PROVE  Inv'
  <2> DEFINE step == wants[t]
  <2>1. /\ step # Nothing /\ InTheWay(t, step) = {} /\ held' = [held EXCEPT ![t] = After(held[t], step)]
        /\ wants' = [wants EXCEPT ![t] = Nothing] /\ section' = section /\ name' = name
    BY <1>3 DEF Grant, Holding, Kept, After, KeptOf
  <2>2. step \in LockStep
    BY <1>0, <2>1
  <2>3. Fine(name[t], section[t], After(held[t], step), Nothing)
    BY <1>0, <2>1, GrantedLate
  <2>4. /\ held' \in [Thread -> SUBSET (Lock \X Mode)]
        /\ \A u, v \in Thread : ServerHeld \in held'[u] /\ ServerHeld \in held'[v] => u = v
    BY <2>1, <2>2, StaysAlone
  <2>5. held'[t] = After(held[t], step) /\ \A u \in Thread \ {t} : held'[u] = held[u]
    BY <1>0, <2>1
  <2>6. /\ wants' \in [Thread -> LockStep \cup {Nothing}] /\ wants'[t] = Nothing
        /\ \A u \in Thread \ {t} : wants'[u] = wants[u]
    BY <1>0, <2>1
  <2> QED BY <1>0, <2>1, <2>3, <2>4, <2>5, <2>6, OneMoves
<1>4. ASSUME NEW t \in Thread, End(t)  PROVE  Inv'
  <2>1. /\ section[t] = <<>> /\ wants[t] = Nothing /\ held' = [held EXCEPT ![t] = {}]
        /\ name' = [name EXCEPT ![t] = Idle] /\ UNCHANGED <<section, wants>>
    BY <1>4 DEF End
  <2>2. /\ held' \in [Thread -> SUBSET (Lock \X Mode)] /\ held'[t] = {}
        /\ \A u \in Thread \ {t} : held'[u] = held[u]
    BY <1>0, <2>1
  <2>3. /\ name' \in [Thread -> Names \cup {Idle}] /\ name'[t] = Idle
        /\ \A u \in Thread \ {t} : name'[u] = name[u]
    BY <1>0, <2>1
  <2>4. Fine(Idle, <<>>, {}, Nothing)
    BY DEF Fine, Rest
  <2>5. \A u, v \in Thread : ServerHeld \in held'[u] /\ ServerHeld \in held'[v] => u = v
    BY <1>0, <2>2
  <2> QED BY SMTT(30), <1>0, <2>1, <2>2, <2>3, <2>4, <2>5, OneMoves
<1>5. CASE UNCHANGED vars
  BY <1>0, <1>5 DEF vars, Inv
<1> QED BY <1>1, <1>2, <1>3, <1>4, <1>5 DEF Next

-----------------------------------------------------------------------------
(* Threads that wait on each other.                                        *)

\* One of them waits for a lock that comes last.
LEMMA Highest ==
  ASSUME NEW threads, threads # {}, NEW f, \A t \in threads : f[t] \in 1..5
  PROVE  \E t \in threads : \A u \in threads : f[u] <= f[t]
<1>1. CASE \E t \in threads : f[t] = 5
  BY <1>1
<1>2. CASE (\A t \in threads : f[t] < 5) /\ \E t \in threads : f[t] = 4
  BY <1>2
<1>3. CASE (\A t \in threads : f[t] < 4) /\ \E t \in threads : f[t] = 3
  BY <1>3
<1>4. CASE (\A t \in threads : f[t] < 3) /\ \E t \in threads : f[t] = 2
  BY <1>4
<1>5. CASE \A t \in threads : f[t] < 2
  BY <1>5
<1>6. \A t \in threads : /\ f[t] # 5 => f[t] < 5
                         /\ (f[t] < 5 /\ f[t] # 4) => f[t] < 4
                         /\ (f[t] < 4 /\ f[t] # 3) => f[t] < 3
                         /\ (f[t] < 3 /\ f[t] # 2) => f[t] < 2
  OBVIOUS
<1> QED BY <1>1, <1>2, <1>3, <1>4, <1>5, <1>6

HasLock(u, lock) == \E h \in held[u] : h[1] = lock

LEMMA NoOtherDeadlock == Inv => OnlyKnownDeadlocks
<1> SUFFICES ASSUME Inv, NEW threads \in (SUBSET Thread) \ {{}}, Stuck(threads),
                    ~ \E t \in threads : name[t] = "ni",
                    ~ \E t \in threads : name[t] = "clean" /\ wants[t].lock \in { h[1] : h \in held[t] },
                    ~ \E t \in threads : name[t] = "route" /\ wants[t].lock \in { h[1] : h \in held[t] }
             PROVE  FALSE
  BY Zenon DEF OnlyKnownDeadlocks
<1>a. /\ threads # {} /\ threads \subseteq Thread
      /\ \A t \in threads : name[t] # "ni"
      /\ \A t \in threads : name[t] \in {"clean", "route"} => ~HasLock(t, wants[t].lock)
  <2>1. threads # {} /\ threads \subseteq Thread /\ \A t \in threads : name[t] # "ni"
    OBVIOUS
  <2>2. ASSUME NEW t \in threads, HasLock(t, wants[t].lock)
        PROVE  wants[t].lock \in { h[1] : h \in held[t] }
    BY <2>2 DEF HasLock
  <2>3. ASSUME NEW t \in threads, HasLock(t, wants[t].lock)  PROVE  name[t] # "clean" /\ name[t] # "route"
    BY <2>2, <2>3
  <2> QED BY <2>1, <2>3
<1>0. \A t \in threads : /\ wants[t] # Nothing /\ Waiting(name[t], held[t], wants[t])
                         /\ InTheWay(t, wants[t]) \cap threads # {}
  BY <1>a DEF Stuck, Inv, Fine
<1> DEFINE rank == [t \in threads |-> Rank(wants[t].lock)]
<1>1. PICK t \in threads : \A u \in threads : rank[u] <= rank[t]
  <2>1. \A u \in threads : rank[u] \in 1..5
    BY RankType
  <2> HIDE DEF rank
  <2> QED BY <1>a, <2>1, Highest
<1>2. \A u \in threads : Rank(wants[u].lock) <= Rank(wants[t].lock)
  BY <1>1
\* Who has a lock that comes last waits for another of its kind, and is routing.
<1>3. ASSUME NEW u \in threads, NEW v \in threads, HasLock(v, wants[u].lock),
             Rank(wants[u].lock) = Rank(wants[t].lock)
      PROVE  /\ name[v] = "route" /\ wants[v].mode = "write" /\ ServerHeld \in held[v]
             /\ Rank(wants[v].lock) = Rank(wants[t].lock)
  <2>1. wants[u].lock \in wants[v].keep
    BY <1>0, <1>3 DEF Waiting, HasLock
  <2>2. Above(name[v], wants[v], wants[u].lock)
    BY <1>0, <1>a, <2>1 DEF Waiting, Ordered
  <2>3. ~(Rank(wants[u].lock) < Rank(wants[v].lock))
    <3>1. Rank(wants[u].lock) \in Int /\ Rank(wants[v].lock) \in Int /\ Rank(wants[t].lock) \in Int
      BY RankType
    <3> QED BY <1>2, <1>3, <3>1
  <2>4. ~(wants[u].lock = wants[v].lock /\ name[v] \in {"clean", "route"})
    BY <1>3, <1>a
  <2>5. /\ name[v] = "route" /\ wants[v].mode = "write" /\ Server \in wants[v].keep
        /\ Rank(wants[u].lock) = Rank(wants[v].lock)
    BY <2>2, <2>3, <2>4 DEF Above
  <2> QED BY <1>0, <1>3, <2>5 DEF Waiting
\* Somebody has the lock, if only behind a writer that waits for it too.
<1>4. ASSUME NEW u \in threads, wants[u].mode = "write"
      PROVE  \E v \in threads : HasLock(v, wants[u].lock)
  BY <1>0, <1>4 DEF InTheWay, HasLock
<1>5. \E v \in threads : HasLock(v, wants[t].lock)
  <2>1. PICK u \in threads : u \in InTheWay(t, wants[t])
    BY <1>0
  <2>2. HasLock(u, wants[t].lock) \/ (wants[u].lock = wants[t].lock /\ wants[u].mode = "write")
    BY <2>1 DEF InTheWay, HasLock, Waits
  <2> QED BY <1>4, <2>2
<1>6. PICK u \in threads : HasLock(u, wants[t].lock)
  BY <1>5
<1>7. /\ name[u] = "route" /\ wants[u].mode = "write" /\ ServerHeld \in held[u]
      /\ Rank(wants[u].lock) = Rank(wants[t].lock)
  BY <1>3, <1>6
<1>8. PICK v \in threads : HasLock(v, wants[u].lock)
  BY <1>4, <1>7
<1>9. ServerHeld \in held[v]
  BY <1>3, <1>7, <1>8
<1>10. u = v
  BY <1>7, <1>9, <1>a DEF Inv
<1> QED BY <1>7, <1>8, <1>10, <1>a

\* Whatever the threads do, they wait on each other for good only when one of them asks for a
\* node's info, reads a node's state twice as the cleaner does, or routes from a node that is its
\* own peer.  (handle_ni_with_ip, keep_table_clean, build_node_graph)
THEOREM KnownDeadlocks ==
  ASSUME \A t \in Thread : Sections[t] \subseteq Names
  PROVE  SSpec => []OnlyKnownDeadlocks
<1>0. (SInit => Init) /\ ([SNext]_svars => [Next]_vars)
  BY DEF SInit, SNext, svars
<1>1. Init => Inv
  <2> SUFFICES ASSUME Init  PROVE  Inv
    OBVIOUS
  <2>1. Fine(Idle, <<>>, {}, Nothing)
    BY DEF Fine, Rest
  <2> QED BY <2>1 DEF Init, Inv
<1>2. Inv /\ [Next]_vars => Inv'
  BY Inductive
<1>3. Inv => OnlyKnownDeadlocks
  BY NoOtherDeadlock
<1> QED BY <1>0, <1>1, <1>2, <1>3, PTL DEF SSpec

-----------------------------------------------------------------------------
(* The parts.  The behaviours that are about one part are behaviours of    *)
(* its module, so that what the other proofs say of that module holds of   *)
(* the part, for any values of its constants.                              *)

Chain == INSTANCE ChainProofs WITH
  Url <- Streamer.Url, Filter <- Streamer.Filter, Memory <- Streamer.Memory, MaxTx <- Streamer.MaxTx,
  MaxTime <- Streamer.MaxTime, MaxDrops <- Streamer.MaxDrops,
  now <- v1, events <- v2, told <- v3, provider <- v4, dropped <- v5, minNum <- v6, used <- v7,
  stream <- v8, txns <- v9, handled <- v10, heard <- v11,
  Rpcs <- Caller.Rpcs, Call <- Caller.Call, MaxTries <- Caller.MaxTries,
  dead <- v1, place <- v2, tries <- v3, type <- v4, second <- v5, count <- v6, server <- v7, raced <- v8,
  Queries <- Domain.Queries, Kind <- Domain.Kind, MaxId <- Domain.MaxId, MaxLogged <- Domain.MaxTx,
  MaxFailed <- Domain.MaxFailed,
  past <- v1, queue <- v2, mode <- v3, domains <- v4, loader <- v5, pc <- v6, on <- v7, event <- v8,
  snap <- v9, failed <- v10, standing <- v11
Listed == { Tested.Peers[i] : i \in DOMAIN Tested.Peers }

Nodes == INSTANCE NodeProofs WITH
  Call <- Administered.Call, Auth <- Administered.Auth, Subscribe <- Administered.Subscribe,
  QueueBound <- Administered.QueueBound, StreamBound <- Administered.StreamBound,
  Period <- Administered.Period, MaxStream <- Administered.MaxStream, MaxCopies <- Administered.MaxCopies,
  pc <- v1, txid <- v2, asking <- v3, queue <- v4, ready <- v5, up <- v6, finished <- v7,
  requests <- v8, answered <- v9, streams <- v10, turns <- v11, node <- v12, wire <- v13, sent <- v14,
  inbox <- v15, got <- v16,
  Peers <- Tested.Peers, Agent <- Tested.Agent, Retest <- Tested.Retest, Window <- Tested.Window,
  Patience <- Tested.Patience, Attempts <- Tested.Attempts, Cap <- Tested.Cap, MaxNow <- Tested.MaxNow,
  Peer <- Listed,
  now <- v1, checked <- v2, todo <- v3, nows <- v4, testing <- v5, phase <- v6, nodes <- v7,
  tasks <- v8, results <- v9, agent <- v10, conn <- v11,
  ChunkSize <- Message.ChunkSize, Writes <- Message.Writes, Counts <- Message.Counts, MaxLen <- Message.MaxLen,
  chunks <- v1, spare <- v2, result <- v3

Lined == INSTANCE RoutingProofs WITH
  Ip <- Line.Ip, Peering <- Line.Peering, Label <- Line.Label, Request <- Line.Request,
  Asked <- Line.Asked, UseOld <- Line.UseOld, Interval <- Line.Interval, MaxNow <- Line.MaxNow,
  MaxChanges <- Line.MaxChanges, MaxGen <- Line.MaxGen, MaxLinks <- Line.MaxLinks,
  now <- v1, changes <- v2, table <- v3, inward <- v4, routing <- v5, owner <- v6, req <- v7, seen <- v8,
  Cred <- Seeded.Cred, PubId <- Seeded.PubId, Posts <- Seeded.Posts, InFlight <- Seeded.InFlight, Unfit <- Seeded.Unfit,
  Result <- Seeded.Result, Respond <- Seeded.Respond, Share <- Seeded.Share, Cutoff <- Seeded.Cutoff,
  MaxAge <- Seeded.MaxAge, MaxTime <- Seeded.MaxNow, MaxPeers <- Seeded.MaxPeers,
  peers <- v2, post <- v3, reply <- v4, asked <- v5, cache <- v6

Paired == INSTANCE RoutingProofs WITH
  Ip <- Pair.Ip, Peering <- Pair.Peering, Label <- Pair.Label, Request <- Pair.Request,
  Asked <- Pair.Asked, UseOld <- Pair.UseOld, Interval <- Pair.Interval, MaxNow <- Pair.MaxNow,
  MaxChanges <- Pair.MaxChanges, MaxGen <- Pair.MaxGen, MaxLinks <- Pair.MaxLinks,
  now <- v1, changes <- v2, table <- v3, inward <- v4, routing <- v5, owner <- v6, req <- v7, seen <- v8,
  Cred <- Shared.Cred, PubId <- Shared.PubId, Posts <- Shared.Posts, InFlight <- Shared.InFlight, Unfit <- Shared.Unfit,
  Result <- Shared.Result, Respond <- Shared.Respond, Share <- Shared.Share, Cutoff <- Shared.Cutoff,
  MaxAge <- Shared.MaxAge, MaxTime <- Shared.MaxNow, MaxPeers <- Shared.MaxPeers,
  peers <- v2, post <- v3, reply <- v4, asked <- v5, cache <- v6

LEMMA PartStays == [SNext]_svars => part' = part
BY DEF SNext, Others, svars

LEMMA DomainsSame ==
  /\ Domains!Init <=> Chain!Cache!Init
  /\ Domains!Next <=> Chain!Cache!Next
  /\ Domains!vars = Chain!Cache!vars
BY DEF Domains!vars, Chain!Cache!vars, Domains!Main, Chain!Cache!Main, Domains!Task,
       Chain!Cache!Task, Domains!Astray, Chain!Cache!Astray, Domains!SubMark, Chain!Cache!SubMark,
       Domains!Dom, Chain!Cache!Dom, Domains!NextId, Chain!Cache!NextId, Domains!Tops,
       Chain!Cache!Tops, Domains!With, Chain!Cache!With, Domains!Without, Chain!Cache!Without,
       Domains!CountBy, Chain!Cache!CountBy, Domains!After, Chain!Cache!After, Domains!Lockup,
       Chain!Cache!Lockup, Domains!Tx, Chain!Cache!Tx, Domains!NewDomain, Chain!Cache!NewDomain,
       Domains!Loaded, Chain!Cache!Loaded, Domains!WithRecords, Chain!Cache!WithRecords,
       Domains!TakenOver, Chain!Cache!TakenOver, Domains!Counted, Chain!Cache!Counted,
       Domains!Subdomain, Chain!Cache!Subdomain, Domains!Removed, Chain!Cache!Removed,
       Domains!Bails, Chain!Cache!Bails, Domains!Applied, Chain!Cache!Applied, Domains!Init,
       Chain!Cache!Init, Domains!Transact, Chain!Cache!Transact, Domains!TakeEvent,
       Chain!Cache!TakeEvent, Domains!Query, Chain!Cache!Query, Domains!Wait, Chain!Cache!Wait,
       Domains!Decide, Chain!Cache!Decide, Domains!Answer, Chain!Cache!Answer, Domains!Apply,
       Chain!Cache!Apply, Domains!HandleErr, Chain!Cache!HandleErr, Domains!BeginLoad,
       Chain!Cache!BeginLoad, Domains!Read, Chain!Cache!Read, Domains!Wake, Chain!Cache!Wake,
       Domains!FinishLoad, Chain!Cache!FinishLoad, Domains!FailLoad, Chain!Cache!FailLoad,
       Domains!TaskNext, Chain!Cache!TaskNext, Domains!Next, Chain!Cache!Next, Domains!Last,
       Chain!Cache!Last, Domains!Cardinality, Chain!Cache!Cardinality

LEMMA DomainsBehave == SSpec /\ part = "domains" => Chain!Cache!Spec /\ [](part = "domains")
<1>1. SInit /\ part = "domains" => Chain!Cache!Init
  BY DomainsSame DEF SInit
<1>2. [SNext]_svars /\ part = "domains" => [Chain!Cache!Next]_(Chain!Cache!vars) /\ (part = "domains")'
  BY DomainsSame DEF SNext, Others, svars, vars, From4, From7, From9, From12, Chain!Cache!vars
<1> QED BY <1>1, <1>2, PTL DEF SSpec, Chain!Cache!Spec

LEMMA RpcSame ==
  /\ Rpc!Init <=> Chain!Rpc!Init
  /\ Rpc!Next <=> Chain!Rpc!Next
  /\ Rpc!vars = Chain!Rpc!vars
BY DEF Rpc!vars, Chain!Rpc!vars, Rpc!OfType, Chain!Rpc!OfType, Rpc!Nth, Chain!Rpc!Nth, Rpc!None,
       Chain!Rpc!None, Rpc!Init, Chain!Rpc!Init, Rpc!Attempt, Chain!Rpc!Attempt, Rpc!CountType,
       Chain!Rpc!CountType, Rpc!Drawn, Chain!Rpc!Drawn, Rpc!Pick, Chain!Rpc!Pick, Rpc!Mark,
       Chain!Rpc!Mark, Rpc!Answered, Chain!Rpc!Answered, Rpc!Failed, Chain!Rpc!Failed,
       Rpc!Refused, Chain!Rpc!Refused, Rpc!TimedOut, Chain!Rpc!TimedOut, Rpc!Next, Chain!Rpc!Next,
       Rpc!ToSet, Chain!Rpc!ToSet, Rpc!Cardinality, Chain!Rpc!Cardinality

LEMMA RpcBehave == SSpec /\ part = "rpc" => Chain!Rpc!Spec /\ [](part = "rpc")
<1>1. SInit /\ part = "rpc" => Chain!Rpc!Init
  BY RpcSame DEF SInit
<1>2. [SNext]_svars /\ part = "rpc" => [Chain!Rpc!Next]_(Chain!Rpc!vars) /\ (part = "rpc")'
  BY RpcSame DEF SNext, Others, svars, vars, From4, From7, From9, From12, Chain!Rpc!vars
<1> QED BY <1>1, <1>2, PTL DEF SSpec, Chain!Rpc!Spec

LEMMA StreamsSame ==
  /\ Streams!Init <=> Chain!Init
  /\ Streams!Next <=> Chain!Next
  /\ Streams!vars = Chain!vars
BY DEF Streams!vars, Chain!vars, Streams!Reader, Chain!Reader, Streams!NotYet, Chain!NotYet,
       Streams!Init, Chain!Init, Streams!Tick, Chain!Tick, Streams!Emit, Chain!Emit,
       Streams!Connected, Chain!Connected, Streams!Tell, Chain!Tell, Streams!Drop, Chain!Drop,
       Streams!Subscribe, Chain!Subscribe, Streams!Wanted, Chain!Wanted, Streams!Reconnect,
       Chain!Reconnect, Streams!Forgettable, Chain!Forgettable, Streams!Remembered,
       Chain!Remembered, Streams!KnownFrom, Chain!KnownFrom, Streams!Accepts, Chain!Accepts,
       Streams!Handle, Chain!Handle, Streams!Next, Chain!Next, Streams!Cardinality,
       Chain!Cardinality, Streams!ToSet, Chain!ToSet

LEMMA StreamsBehave == SSpec /\ part = "streams" => Chain!Spec /\ [](part = "streams")
<1>1. SInit /\ part = "streams" => Chain!Init
  BY StreamsSame DEF SInit
<1>2. [SNext]_svars /\ part = "streams" => [Chain!Next]_(Chain!vars) /\ (part = "streams")'
  BY StreamsSame DEF SNext, Others, svars, vars, From4, From7, From9, From12, Chain!vars
<1> QED BY <1>1, <1>2, PTL DEF SSpec, Chain!Spec

LEMMA TestSame ==
  /\ Test!Init <=> Nodes!Test!Init
  /\ Test!Next <=> Nodes!Test!Next
  /\ Test!vars = Nodes!Test!vars
BY DEF Test!vars, Nodes!Test!vars, Test!Never, Nodes!Test!Never, Test!Nobody, Nodes!Test!Nobody,
       Test!Idle, Nodes!Test!Idle, Test!Init, Nodes!Test!Init, Test!Tick, Nodes!Test!Tick,
       Test!Pruned, Nodes!Test!Pruned, Test!Fetch, Nodes!Test!Fetch, Test!Due, Nodes!Test!Due,
       Test!UnderTest, Nodes!Test!UnderTest, Test!Skip, Nodes!Test!Skip, Test!Send,
       Nodes!Test!Send, Test!Sent, Nodes!Test!Sent, Test!Collect, Nodes!Test!Collect,
       Test!Collected, Nodes!Test!Collected, Test!Post, Nodes!Test!Post, Test!Freed,
       Nodes!Test!Freed, Test!Take, Nodes!Test!Take, Test!Ended, Nodes!Test!Ended, Test!Begin,
       Nodes!Test!Begin, Test!Finish, Nodes!Test!Finish, Test!TimeOut, Nodes!Test!TimeOut,
       Test!Report, Nodes!Test!Report, Test!Next, Nodes!Test!Next, Test!ToSet, Nodes!Test!ToSet

LEMMA TestBehave == SSpec /\ part = "test" => Nodes!Test!Spec /\ [](part = "test")
<1>1. SInit /\ part = "test" => Nodes!Test!Init
  BY TestSame DEF SInit
<1>2. [SNext]_svars /\ part = "test" => [Nodes!Test!Next]_(Nodes!Test!vars) /\ (part = "test")'
  BY TestSame DEF SNext, Others, svars, vars, From4, From7, From9, From12, Nodes!Test!vars
<1> QED BY <1>1, <1>2, PTL DEF SSpec, Nodes!Test!Spec

LEMMA BufferSame ==
  /\ Buffer!Init <=> Nodes!Buffer!Init
  /\ Buffer!Next <=> Nodes!Buffer!Next
  /\ Buffer!vars = Nodes!Buffer!vars
  /\ Buffer!bytes = Nodes!Buffer!bytes
  /\ Buffer!Stack!Init <=> Nodes!Buffer!Stack!Init
  /\ Buffer!Stack!Next <=> Nodes!Buffer!Stack!Next
BY DEF Buffer!vars, Nodes!Buffer!vars, Buffer!bytes, Nodes!Buffer!bytes, Buffer!TakeWritable,
       Nodes!Buffer!TakeWritable, Buffer!Part, Nodes!Buffer!Part, Buffer!Turn,
       Nodes!Buffer!Turn, Buffer!Written, Nodes!Buffer!Written, Buffer!Pop, Nodes!Buffer!Pop,
       Buffer!Taken, Nodes!Buffer!Taken, Buffer!Init, Nodes!Buffer!Init, Buffer!Now,
       Nodes!Buffer!Now, Buffer!Write, Nodes!Buffer!Write, Buffer!Read, Nodes!Buffer!Read,
       Buffer!Discard, Nodes!Buffer!Discard, Buffer!Next, Nodes!Buffer!Next,
       Buffer!Stack!vars, Nodes!Buffer!Stack!vars, Buffer!Stack!Least,
       Nodes!Buffer!Stack!Least, Buffer!Stack!Init, Nodes!Buffer!Stack!Init,
       Buffer!Stack!Write, Nodes!Buffer!Stack!Write, Buffer!Stack!Read,
       Nodes!Buffer!Stack!Read, Buffer!Stack!Discard, Nodes!Buffer!Stack!Discard,
       Buffer!Stack!Next, Nodes!Buffer!Stack!Next, Buffer!Front, Nodes!Buffer!Front,
       Buffer!Last, Nodes!Buffer!Last, Buffer!FlattenSeq, Nodes!Buffer!FlattenSeq,
       Buffer!Reverse, Nodes!Buffer!Reverse

LEMMA BufferBehave == SSpec /\ part = "buffer" => Nodes!Buffer!Spec /\ [](part = "buffer")
<1>1. SInit /\ part = "buffer" => Nodes!Buffer!Init
  BY BufferSame DEF SInit
<1>2. part = "buffer" /\ [SNext]_svars => [Nodes!Buffer!Next]_(Nodes!Buffer!vars) /\ (part = "buffer")'
  BY BufferSame DEF SNext, Others, svars, Buffer!vars, Nodes!Buffer!vars
<1> QED BY <1>1, <1>2, PTL DEF SSpec, Nodes!Buffer!Spec

LEMMA AdminSame ==
  /\ Admin!Init <=> Nodes!Init
  /\ Admin!Next <=> Nodes!Next
  /\ Admin!vars = Nodes!vars
BY DEF Admin!vars, Nodes!vars, Admin!callers, Nodes!callers, Admin!task, Nodes!task, Admin!remote,
       Nodes!remote, Admin!clients, Nodes!clients, Admin!Tx, Nodes!Tx, Admin!InRegister,
       Nodes!InRegister, Admin!Ended, Nodes!Ended, Admin!Init, Nodes!Init, Admin!Goes, Nodes!Goes,
       Admin!Open, Nodes!Open, Admin!Start, Nodes!Start, Admin!Enqueue, Nodes!Enqueue, Admin!Ask,
       Nodes!Ask, Admin!QueryError, Nodes!QueryError, Admin!Registered, Nodes!Registered,
       Admin!Send, Nodes!Send, Admin!SendFails, Nodes!SendFails, Admin!Answered, Nodes!Answered,
       Admin!TimeOut, Nodes!TimeOut, Admin!Live, Nodes!Live, Admin!HasSubscriber,
       Nodes!HasSubscriber, Admin!Cleaned, Nodes!Cleaned, Admin!HandleRequest,
       Nodes!HandleRequest, Admin!DispatchAnswer, Nodes!DispatchAnswer, Admin!CanTake,
       Nodes!CanTake, Admin!DispatchStream, Nodes!DispatchStream, Admin!DispatchUnknown,
       Nodes!DispatchUnknown, Admin!End, Nodes!End, Admin!Finish, Nodes!Finish, Admin!Answer,
       Nodes!Answer, Admin!Lose, Nodes!Lose, Admin!Stream, Nodes!Stream, Admin!Take, Nodes!Take,
       Admin!Next, Nodes!Next

LEMMA AdminBehave == SSpec /\ part = "admin" => Nodes!Spec /\ [](part = "admin")
<1>1. SInit /\ part = "admin" => Nodes!Init
  BY AdminSame DEF SInit
<1>2. [SNext]_svars /\ part = "admin" => [Nodes!Next]_(Nodes!vars) /\ (part = "admin")'
  BY AdminSame DEF SNext, Others, svars, vars, From4, From7, From9, From12, Nodes!vars
<1> QED BY <1>1, <1>2, PTL DEF SSpec, Nodes!Spec

LEMMA RoutesSame ==
  /\ Routes!Init <=> Lined!Init
  /\ Routes!Next <=> Lined!Next
  /\ Routes!vars = Lined!vars
<1> USE DEF Routes!vars, Lined!vars, Routes!Nobody, Lined!Nobody, Routes!NoGraph, Lined!NoGraph,
            Routes!Nodes, Lined!Nodes, Routes!NoNode, Lined!NoNode, Routes!Link, Lined!Link,
            Routes!Node, Lined!Node, Routes!FirstLinks, Lined!FirstLinks, Routes!Resting,
            Lined!Resting, Routes!Init, Lined!Init, Routes!Tick, Lined!Tick, Routes!SeenToo,
            Lined!SeenToo, Routes!Announce, Lined!Announce, Routes!Reset, Lined!Reset,
            Routes!Clean, Lined!Clean, Routes!Direct, Lined!Direct, Routes!Start, Lined!Start,
            Routes!Cleared, Lined!Cleared, Routes!Lock, Lined!Lock, Routes!Row, Lined!Row,
            Routes!Edge, Lined!Edge, Routes!Built, Lined!Built, Routes!Key, Lined!Key,
            Routes!Paths, Lined!Paths, Routes!Return, Lined!Return, Routes!Cached, Lined!Cached,
            Routes!WithRoute, Lined!WithRoute, Routes!Computed, Lined!Computed, Routes!Hop,
            Lined!Hop, Routes!HasLinks, Lined!HasLinks, Routes!NextHop, Lined!NextHop,
            Routes!Labelled, Lined!Labelled, Routes!NewestOf, Lined!NewestOf, Routes!Newest,
            Lined!Newest, Routes!Confirm, Lined!Confirm, Routes!Answer, Lined!Answer, Routes!Done,
            Lined!Done, Routes!Among, Lined!Among, Routes!ToSet, Lined!ToSet, Routes!Pick,
            Lined!Pick, Routes!Cardinality, Lined!Cardinality, Routes!IsInjective,
            Lined!IsInjective, Routes!Rank, Lined!Rank
<1>1. Routes!Tick <=> Lined!Tick
  OBVIOUS
<1>2. \A n : Routes!Reset(n) <=> Lined!Reset(n)
  OBVIOUS
<1>3. \A n : Routes!Clean(n) <=> Lined!Clean(n)
  OBVIOUS
<1>4. \A n, p : Routes!Announce(n, p) <=> Lined!Announce(n, p)
  OBVIOUS
<1>5. \A r : Routes!Start(r) <=> Lined!Start(r)
  OBVIOUS
<1>6. \A r : Routes!Lock(r) <=> Lined!Lock(r)
  OBVIOUS
<1>7. \A r : Routes!Edge(r) <=> Lined!Edge(r)
  OBVIOUS
<1>8. \A r : Routes!Built(r) <=> Lined!Built(r)
  OBVIOUS
<1>9. \A r : Routes!Cached(r) <=> Lined!Cached(r)
  OBVIOUS
<1>10. \A r : Routes!NextHop(r) <=> Lined!NextHop(r)
  OBVIOUS
<1>11. \A r : Routes!Labelled(r) <=> Lined!Labelled(r)
  OBVIOUS
<1>12. \A r : Routes!Newest(r) <=> Lined!Newest(r)
  OBVIOUS
<1>13. \A r : Routes!Confirm(r) <=> Lined!Confirm(r)
  OBVIOUS
<1>14. \A r : Routes!Answer(r) <=> Lined!Answer(r)
  OBVIOUS
<1>15. \A r : Routes!Done(r) <=> Lined!Done(r)
  OBVIOUS
<1>16. \A r, n : Routes!Row(r, n) <=> Lined!Row(r, n)
  OBVIOUS
<1>17. (Routes!Init <=> Lined!Init) /\ Routes!vars = Lined!vars
  OBVIOUS
<1> HIDE DEF Routes!Tick, Lined!Tick, Routes!Reset, Lined!Reset, Routes!Clean, Lined!Clean,
             Routes!Announce, Lined!Announce, Routes!Start, Lined!Start, Routes!Lock, Lined!Lock,
             Routes!Edge, Lined!Edge, Routes!Built, Lined!Built, Routes!Cached, Lined!Cached,
             Routes!NextHop, Lined!NextHop, Routes!Labelled, Lined!Labelled, Routes!Newest,
             Lined!Newest, Routes!Confirm, Lined!Confirm, Routes!Answer, Lined!Answer,
             Routes!Done, Lined!Done, Routes!Row, Lined!Row
<1> QED BY <1>1, <1>2, <1>3, <1>4, <1>5, <1>6, <1>7, <1>8, <1>9, <1>10, <1>11, <1>12, <1>13,
           <1>14, <1>15, <1>16, <1>17 DEF Routes!Next, Lined!Next

LEMMA RoutesBehave == SSpec /\ part = "routes" => Lined!Spec /\ [](part = "routes")
<1>1. SInit /\ part = "routes" => Lined!Init
  BY RoutesSame DEF SInit
<1>2. [SNext]_svars /\ part = "routes" => [Lined!Next]_(Lined!vars) /\ (part = "routes")'
  BY RoutesSame DEF SNext, Others, svars, vars, From4, From7, From9, From12, Lined!vars
<1> QED BY <1>1, <1>2, PTL DEF SSpec, Lined!Spec

LEMMA BesideSame ==
  /\ Beside!Init <=> Paired!Init
  /\ Beside!Next <=> Paired!Next
  /\ Beside!vars = Paired!vars
<1> USE DEF Beside!vars, Paired!vars, Beside!Nobody, Paired!Nobody, Beside!NoGraph,
            Paired!NoGraph, Beside!Nodes, Paired!Nodes, Beside!NoNode, Paired!NoNode, Beside!Link,
            Paired!Link, Beside!Node, Paired!Node, Beside!FirstLinks, Paired!FirstLinks,
            Beside!Resting, Paired!Resting, Beside!Init, Paired!Init, Beside!Tick, Paired!Tick,
            Beside!SeenToo, Paired!SeenToo, Beside!Announce, Paired!Announce, Beside!Reset,
            Paired!Reset, Beside!Clean, Paired!Clean, Beside!Direct, Paired!Direct, Beside!Start,
            Paired!Start, Beside!Cleared, Paired!Cleared, Beside!Lock, Paired!Lock, Beside!Row,
            Paired!Row, Beside!Edge, Paired!Edge, Beside!Built, Paired!Built, Beside!Key,
            Paired!Key, Beside!Paths, Paired!Paths, Beside!Return, Paired!Return, Beside!Cached,
            Paired!Cached, Beside!WithRoute, Paired!WithRoute, Beside!Computed, Paired!Computed,
            Beside!Hop, Paired!Hop, Beside!HasLinks, Paired!HasLinks, Beside!NextHop,
            Paired!NextHop, Beside!Labelled, Paired!Labelled, Beside!NewestOf, Paired!NewestOf,
            Beside!Newest, Paired!Newest, Beside!Confirm, Paired!Confirm, Beside!Answer,
            Paired!Answer, Beside!Done, Paired!Done, Beside!Among, Paired!Among, Beside!ToSet,
            Paired!ToSet, Beside!Pick, Paired!Pick, Beside!Cardinality, Paired!Cardinality,
            Beside!IsInjective, Paired!IsInjective, Beside!Rank, Paired!Rank
<1>1. Beside!Tick <=> Paired!Tick
  OBVIOUS
<1>2. \A n : Beside!Reset(n) <=> Paired!Reset(n)
  OBVIOUS
<1>3. \A n : Beside!Clean(n) <=> Paired!Clean(n)
  OBVIOUS
<1>4. \A n, p : Beside!Announce(n, p) <=> Paired!Announce(n, p)
  OBVIOUS
<1>5. \A r : Beside!Start(r) <=> Paired!Start(r)
  OBVIOUS
<1>6. \A r : Beside!Lock(r) <=> Paired!Lock(r)
  OBVIOUS
<1>7. \A r : Beside!Edge(r) <=> Paired!Edge(r)
  OBVIOUS
<1>8. \A r : Beside!Built(r) <=> Paired!Built(r)
  OBVIOUS
<1>9. \A r : Beside!Cached(r) <=> Paired!Cached(r)
  OBVIOUS
<1>10. \A r : Beside!NextHop(r) <=> Paired!NextHop(r)
  OBVIOUS
<1>11. \A r : Beside!Labelled(r) <=> Paired!Labelled(r)
  OBVIOUS
<1>12. \A r : Beside!Newest(r) <=> Paired!Newest(r)
  OBVIOUS
<1>13. \A r : Beside!Confirm(r) <=> Paired!Confirm(r)
  OBVIOUS
<1>14. \A r : Beside!Answer(r) <=> Paired!Answer(r)
  OBVIOUS
<1>15. \A r : Beside!Done(r) <=> Paired!Done(r)
  OBVIOUS
<1>16. \A r, n : Beside!Row(r, n) <=> Paired!Row(r, n)
  OBVIOUS
<1>17. (Beside!Init <=> Paired!Init) /\ Beside!vars = Paired!vars
  OBVIOUS
<1> HIDE DEF Beside!Tick, Paired!Tick, Beside!Reset, Paired!Reset, Beside!Clean, Paired!Clean,
             Beside!Announce, Paired!Announce, Beside!Start, Paired!Start, Beside!Lock,
             Paired!Lock, Beside!Edge, Paired!Edge, Beside!Built, Paired!Built, Beside!Cached,
             Paired!Cached, Beside!NextHop, Paired!NextHop, Beside!Labelled, Paired!Labelled,
             Beside!Newest, Paired!Newest, Beside!Confirm, Paired!Confirm, Beside!Answer,
             Paired!Answer, Beside!Done, Paired!Done, Beside!Row, Paired!Row
<1> QED BY <1>1, <1>2, <1>3, <1>4, <1>5, <1>6, <1>7, <1>8, <1>9, <1>10, <1>11, <1>12, <1>13,
           <1>14, <1>15, <1>16, <1>17 DEF Beside!Next, Paired!Next

LEMMA BesideBehave == SSpec /\ part = "beside" => Paired!Spec /\ [](part = "beside")
<1>1. SInit /\ part = "beside" => Paired!Init
  BY BesideSame DEF SInit
<1>2. [SNext]_svars /\ part = "beside" => [Paired!Next]_(Paired!vars) /\ (part = "beside")'
  BY BesideSame DEF SNext, Others, svars, vars, From4, From7, From9, From12, Paired!vars
<1> QED BY <1>1, <1>2, PTL DEF SSpec, Paired!Spec

LEMMA SeedsSame ==
  /\ Seeds!Init <=> Lined!Seeder!Init
  /\ Seeds!Next <=> Lined!Seeder!Next
  /\ Seeds!vars = Lined!Seeder!vars
<1>1. \A s, K : Seeds!Pick(s, K) = Lined!Seeder!Pick(s, K)
  BY DEF Seeds!Pick, Lined!Seeder!Pick, Seeds!Rank, Lined!Seeder!Rank, Seeds!Cardinality,
         Lined!Seeder!Cardinality
<1>2. \A list, cred, unfit, out, among, room :
        Seeds!Pass(list, cred, unfit, out, among, room)
          = Lined!Seeder!Pass(list, cred, unfit, out, among, room)
  <2> TAKE list, cred, unfit, out, among, room
  <2> DEFINE K == { i \in among : Seeds!Eligible(list[i], cred, out, unfit) }
  <2>1. K = { i \in among : Lined!Seeder!Eligible(list[i], cred, out, unfit) }
    BY DEF Seeds!Eligible, Lined!Seeder!Eligible, Seeds!ToSet, Lined!Seeder!ToSet
  <2>2. Seeds!Pick(list, K) = Lined!Seeder!Pick(list, K)
    BY <1>1
  <2> QED BY <2>1, <2>2 DEF Seeds!Pass, Lined!Seeder!Pass
<1>3. \A list, sender, cred, unfit, out :
        Seeds!Selected(list, sender, cred, unfit, out)
          = Lined!Seeder!Selected(list, sender, cred, unfit, out)
  <2> TAKE list, sender, cred, unfit, out
  <2> DEFINE among(a) == { i \in DOMAIN list : Seeds!InPass(list[i], Seeds!RingOf(list, sender, cred), a) }
             full == Len(out) + Seeded.Respond
             first == IF out = <<>> THEN Seeds!Pass(list, cred, unfit, out, among(0), 1) ELSE out
             second == Seeds!Pass(list, cred, unfit, first, among(1), full - Len(first))
             third == Seeds!Pass(list, cred, unfit, second, among(2), full - Len(second))
             fourth == Seeds!Pass(list, cred, unfit, third, among(3), full - Len(third))
             firstToo == IF out = <<>> THEN Lined!Seeder!Pass(list, cred, unfit, out, among(0), 1) ELSE out
             secondToo == Lined!Seeder!Pass(list, cred, unfit, firstToo, among(1), full - Len(firstToo))
             thirdToo == Lined!Seeder!Pass(list, cred, unfit, secondToo, among(2), full - Len(secondToo))
             fourthToo == Lined!Seeder!Pass(list, cred, unfit, thirdToo, among(3), full - Len(thirdToo))
  <2>1. fourth = Seeds!Selected(list, sender, cred, unfit, out)
    BY DEF Seeds!Selected
  <2>2. fourthToo = Lined!Seeder!Selected(list, sender, cred, unfit, out)
    BY DEF Lined!Seeder!Selected, Seeds!InPass, Lined!Seeder!InPass, Seeds!RingOf,
           Lined!Seeder!RingOf, Seeds!IndexOf, Lined!Seeder!IndexOf, Seeds!TopRing,
           Lined!Seeder!TopRing
  <2> HIDE DEF among, full
  <2>3. first = firstToo
    BY <1>2
  <2> HIDE DEF first, firstToo
  <2>4. second = secondToo
    BY <1>2, <2>3
  <2> HIDE DEF second, secondToo
  <2>5. third = thirdToo
    BY <1>2, <2>4
  <2> HIDE DEF third, thirdToo
  <2>6. fourth = fourthToo
    BY <1>2, <2>5
  <2> QED BY <2>1, <2>2, <2>6
<1>4. \A list, sender, id, cred :
        Seeds!Recorded(list, sender, id, cred)
          = Lined!Seeder!Recorded(list, sender, id, cred)
  BY DEF Seeds!Recorded, Lined!Seeder!Recorded, Seeds!IndexOf, Lined!Seeder!IndexOf, Seeds!Renewed,
         Lined!Seeder!Renewed, Seeds!NewPeer, Lined!Seeder!NewPeer, Seeds!TopRing,
         Lined!Seeder!TopRing, Seeds!Never, Lined!Seeder!Never
<1>5. \A out : Seeds!Trimmed(out) = Lined!Seeder!Trimmed(out)
  BY DEF Seeds!Trimmed, Lined!Seeder!Trimmed, Seeds!Pick, Lined!Seeder!Pick, Seeds!Rank,
         Lined!Seeder!Rank, Seeds!Cardinality, Lined!Seeder!Cardinality
<1>6. \A unfit : Seeds!ListPeers(unfit) = Lined!Seeder!ListPeers(unfit)
  BY DEF Seeds!ListPeers, Lined!Seeder!ListPeers, Seeds!Shareable, Lined!Seeder!Shareable,
         Seeds!Never, Lined!Seeder!Never, Seeds!Pick, Lined!Seeder!Pick, Seeds!Rank,
         Lined!Seeder!Rank, Seeds!Cardinality, Lined!Seeder!Cardinality
<1>7. (Seeds!Tick <=> Lined!Seeder!Tick) /\ (Seeds!TestRes <=> Lined!Seeder!TestRes)
  BY DEF Seeds!Tick, Lined!Seeder!Tick, Seeds!TestRes, Lined!Seeder!TestRes, Seeds!NoReply,
         Lined!Seeder!NoReply
<1>8. (Seeds!Ask <=> Lined!Seeder!Ask) /\ (Seeds!Store <=> Lined!Seeder!Store)
  BY <1>6 DEF Seeds!Ask, Lined!Seeder!Ask, Seeds!Store, Lined!Seeder!Store, Seeds!NoReply,
         Lined!Seeder!NoReply, Seeds!Never, Lined!Seeder!Never
<1>9. \A r : (Seeds!Open(r) <=> Lined!Seeder!Open(r)) /\ (Seeds!Refuse(r) <=> Lined!Seeder!Refuse(r))
  BY DEF Seeds!Open, Lined!Seeder!Open, Seeds!Refuse, Lined!Seeder!Refuse, Seeds!NoReply,
         Lined!Seeder!NoReply, Seeds!NoPost, Lined!Seeder!NoPost, Seeds!Ip, Lined!Seeder!Ip
<1>10. \A r : Seeds!HandleCred(r) <=> Lined!Seeder!HandleCred(r)
  BY <1>3, <1>4 DEF Seeds!HandleCred, Lined!Seeder!HandleCred, Seeds!NoReply, Lined!Seeder!NoReply
<1>11. \A r : Seeds!Answer(r) <=> Lined!Seeder!Answer(r)
  BY <1>5 DEF Seeds!Answer, Lined!Seeder!Answer, Seeds!NoPost, Lined!Seeder!NoPost
<1>12. (Seeds!Init <=> Lined!Seeder!Init) /\ Seeds!vars = Lined!Seeder!vars
  BY DEF Seeds!Init, Lined!Seeder!Init, Seeds!vars, Lined!Seeder!vars, Seeds!NoReply,
         Lined!Seeder!NoReply, Seeds!NoPost, Lined!Seeder!NoPost, Seeds!Never, Lined!Seeder!Never
<1> QED BY <1>7, <1>8, <1>9, <1>10, <1>11, <1>12 DEF Seeds!Next, Lined!Seeder!Next

LEMMA SeedsBehave == SSpec /\ part = "seeds" => Lined!Seeder!Spec /\ [](part = "seeds")
<1>1. SInit /\ part = "seeds" => Lined!Seeder!Init
  BY SeedsSame DEF SInit
<1>2. [SNext]_svars /\ part = "seeds" => [Lined!Seeder!Next]_(Lined!Seeder!vars) /\ (part = "seeds")'
  BY SeedsSame DEF SNext, Others, svars, vars, From4, From7, From9, From12, Lined!Seeder!vars
<1> QED BY <1>1, <1>2, PTL DEF SSpec, Lined!Seeder!Spec

LEMMA RecordsSame ==
  /\ Records!Init <=> Paired!Seeder!Init
  /\ Records!Next <=> Paired!Seeder!Next
  /\ Records!vars = Paired!Seeder!vars
<1>1. \A s, K : Records!Pick(s, K) = Paired!Seeder!Pick(s, K)
  BY DEF Records!Pick, Paired!Seeder!Pick, Records!Rank, Paired!Seeder!Rank, Records!Cardinality,
         Paired!Seeder!Cardinality
<1>2. \A list, cred, unfit, out, among, room :
        Records!Pass(list, cred, unfit, out, among, room)
          = Paired!Seeder!Pass(list, cred, unfit, out, among, room)
  <2> TAKE list, cred, unfit, out, among, room
  <2> DEFINE K == { i \in among : Records!Eligible(list[i], cred, out, unfit) }
  <2>1. K = { i \in among : Paired!Seeder!Eligible(list[i], cred, out, unfit) }
    BY DEF Records!Eligible, Paired!Seeder!Eligible, Records!ToSet, Paired!Seeder!ToSet
  <2>2. Records!Pick(list, K) = Paired!Seeder!Pick(list, K)
    BY <1>1
  <2> QED BY <2>1, <2>2 DEF Records!Pass, Paired!Seeder!Pass
<1>3. \A list, sender, cred, unfit, out :
        Records!Selected(list, sender, cred, unfit, out)
          = Paired!Seeder!Selected(list, sender, cred, unfit, out)
  <2> TAKE list, sender, cred, unfit, out
  <2> DEFINE among(a) == { i \in DOMAIN list : Records!InPass(list[i], Records!RingOf(list, sender, cred), a) }
             full == Len(out) + Shared.Respond
             first == IF out = <<>> THEN Records!Pass(list, cred, unfit, out, among(0), 1) ELSE out
             second == Records!Pass(list, cred, unfit, first, among(1), full - Len(first))
             third == Records!Pass(list, cred, unfit, second, among(2), full - Len(second))
             fourth == Records!Pass(list, cred, unfit, third, among(3), full - Len(third))
             firstToo == IF out = <<>> THEN Paired!Seeder!Pass(list, cred, unfit, out, among(0), 1) ELSE out
             secondToo == Paired!Seeder!Pass(list, cred, unfit, firstToo, among(1), full - Len(firstToo))
             thirdToo == Paired!Seeder!Pass(list, cred, unfit, secondToo, among(2), full - Len(secondToo))
             fourthToo == Paired!Seeder!Pass(list, cred, unfit, thirdToo, among(3), full - Len(thirdToo))
  <2>1. fourth = Records!Selected(list, sender, cred, unfit, out)
    BY DEF Records!Selected
  <2>2. fourthToo = Paired!Seeder!Selected(list, sender, cred, unfit, out)
    BY DEF Paired!Seeder!Selected, Records!InPass, Paired!Seeder!InPass, Records!RingOf,
           Paired!Seeder!RingOf, Records!IndexOf, Paired!Seeder!IndexOf, Records!TopRing,
           Paired!Seeder!TopRing
  <2> HIDE DEF among, full
  <2>3. first = firstToo
    BY <1>2
  <2> HIDE DEF first, firstToo
  <2>4. second = secondToo
    BY <1>2, <2>3
  <2> HIDE DEF second, secondToo
  <2>5. third = thirdToo
    BY <1>2, <2>4
  <2> HIDE DEF third, thirdToo
  <2>6. fourth = fourthToo
    BY <1>2, <2>5
  <2> QED BY <2>1, <2>2, <2>6
<1>4. \A list, sender, id, cred :
        Records!Recorded(list, sender, id, cred)
          = Paired!Seeder!Recorded(list, sender, id, cred)
  BY DEF Records!Recorded, Paired!Seeder!Recorded, Records!IndexOf, Paired!Seeder!IndexOf,
         Records!Renewed, Paired!Seeder!Renewed, Records!NewPeer, Paired!Seeder!NewPeer,
         Records!TopRing, Paired!Seeder!TopRing, Records!Never, Paired!Seeder!Never
<1>5. \A out : Records!Trimmed(out) = Paired!Seeder!Trimmed(out)
  BY DEF Records!Trimmed, Paired!Seeder!Trimmed, Records!Pick, Paired!Seeder!Pick, Records!Rank,
         Paired!Seeder!Rank, Records!Cardinality, Paired!Seeder!Cardinality
<1>6. \A unfit : Records!ListPeers(unfit) = Paired!Seeder!ListPeers(unfit)
  BY DEF Records!ListPeers, Paired!Seeder!ListPeers, Records!Shareable, Paired!Seeder!Shareable,
         Records!Never, Paired!Seeder!Never, Records!Pick, Paired!Seeder!Pick, Records!Rank,
         Paired!Seeder!Rank, Records!Cardinality, Paired!Seeder!Cardinality
<1>7. (Records!Tick <=> Paired!Seeder!Tick) /\ (Records!TestRes <=> Paired!Seeder!TestRes)
  BY DEF Records!Tick, Paired!Seeder!Tick, Records!TestRes, Paired!Seeder!TestRes, Records!NoReply,
         Paired!Seeder!NoReply
<1>8. (Records!Ask <=> Paired!Seeder!Ask) /\ (Records!Store <=> Paired!Seeder!Store)
  BY <1>6 DEF Records!Ask, Paired!Seeder!Ask, Records!Store, Paired!Seeder!Store, Records!NoReply,
         Paired!Seeder!NoReply, Records!Never, Paired!Seeder!Never
<1>9. \A r : (Records!Open(r) <=> Paired!Seeder!Open(r)) /\ (Records!Refuse(r) <=> Paired!Seeder!Refuse(r))
  BY DEF Records!Open, Paired!Seeder!Open, Records!Refuse, Paired!Seeder!Refuse, Records!NoReply,
         Paired!Seeder!NoReply, Records!NoPost, Paired!Seeder!NoPost, Records!Ip, Paired!Seeder!Ip
<1>10. \A r : Records!HandleCred(r) <=> Paired!Seeder!HandleCred(r)
  BY <1>3, <1>4 DEF Records!HandleCred, Paired!Seeder!HandleCred, Records!NoReply,
         Paired!Seeder!NoReply
<1>11. \A r : Records!Answer(r) <=> Paired!Seeder!Answer(r)
  BY <1>5 DEF Records!Answer, Paired!Seeder!Answer, Records!NoPost, Paired!Seeder!NoPost
<1>12. (Records!Init <=> Paired!Seeder!Init) /\ Records!vars = Paired!Seeder!vars
  BY DEF Records!Init, Paired!Seeder!Init, Records!vars, Paired!Seeder!vars, Records!NoReply,
         Paired!Seeder!NoReply, Records!NoPost, Paired!Seeder!NoPost, Records!Never,
         Paired!Seeder!Never
<1> QED BY <1>7, <1>8, <1>9, <1>10, <1>11, <1>12 DEF Records!Next, Paired!Seeder!Next

LEMMA RecordsBehave == SSpec /\ part = "records" => Paired!Seeder!Spec /\ [](part = "records")
<1>1. SInit /\ part = "records" => Paired!Seeder!Init
  BY RecordsSame DEF SInit
<1>2. [SNext]_svars /\ part = "records" => [Paired!Seeder!Next]_(Paired!Seeder!vars) /\ (part = "records")'
  BY RecordsSame DEF SNext, Others, svars, vars, From4, From7, From9, From12, Paired!Seeder!vars
<1> QED BY <1>1, <1>2, PTL DEF SSpec, Paired!Seeder!Spec

-----------------------------------------------------------------------------
(* What holds of each part.                                                *)

\* Whoever waits for the domains to be loaded waits for a task that is loading and will wake it.
\* (cjdns-pns lib.rs: with_domains, update_all_domains)
THEOREM LoaderLives == SSpec => []LoaderAlive
<1>1. [SNext]_svars /\ ~(part = "domains") => ~(part = "domains")'
  BY PartStays
<1>2. Chain!Cache!Spec => []Chain!Cache!LoaderAlive
  BY Chain!NobodyForgotten
<1>3. Chain!Cache!LoaderAlive => LoaderAlive
  BY DEF LoaderAlive, Domains!LoaderAlive, Chain!Cache!LoaderAlive, Domains!Task, Chain!Cache!Task,
         Domains!Main, Chain!Cache!Main
<1>4. ~(part = "domains") => LoaderAlive
  BY DEF LoaderAlive
<1> QED BY <1>1, <1>2, <1>3, <1>4, DomainsBehave, PTL DEF SSpec

\* The copy of the domains is what the contract was after the last event applied, while events
\* come in their turn, and only a takeover leaves records behind.  (cjdns-pns lib.rs: the filters)
THEOREM ContractIsFollowed ==
  ASSUME Domains!Main \notin Domain.Kind, Domain.Kind \cap Domain.Queries = {}
  PROVE  SSpec => []ContractFollowed
<1>1. [SNext]_svars /\ ~(part = "domains") => ~(part = "domains")'
  BY PartStays
<1>2. Chain!Cache!Spec => [](Chain!Cache!InStep /\ Chain!Cache!RecordsFollow)
  BY Chain!ContractKept DEF Domains!Main, Chain!Cache!Main
<1>3. Chain!Cache!InStep /\ Chain!Cache!RecordsFollow => ContractFollowed
  BY DEF ContractFollowed, InStep, RecordsFollow, Domains!InStep, Chain!Cache!InStep,
         Domains!RecordsFollow, Chain!Cache!RecordsFollow, Domains!Astray, Chain!Cache!Astray
<1>4. ~(part = "domains") => ContractFollowed
  BY DEF ContractFollowed, InStep, RecordsFollow
<1> QED BY <1>1, <1>2, <1>3, <1>4, DomainsBehave, PTL DEF SSpec

\* A call that no other call's marks raced with finds a server.  (rpc_of_type)
THEOREM AloneFindsServer ==
  ASSUME DOMAIN Caller.Rpcs # {}, IsFiniteSet(DOMAIN Caller.Rpcs)
  PROVE  SSpec => []ShortageIsRace
<1>1. [SNext]_svars /\ ~(part = "rpc") => ~(part = "rpc")'
  BY PartStays
<1>2. Chain!Rpc!Spec => []Chain!Rpc!ShortageIsRace
  BY Chain!AloneFinds DEF IsFiniteSet, Chain!IsFiniteSet
<1>3. Chain!Rpc!ShortageIsRace => ShortageIsRace
  BY DEF ShortageIsRace, Rpc!ShortageIsRace, Chain!Rpc!ShortageIsRace
<1>4. ~(part = "rpc") => ShortageIsRace
  BY DEF ShortageIsRace
<1> QED BY <1>1, <1>2, <1>3, <1>4, RpcBehave, PTL DEF SSpec

\* Of the events that every server tells of, each is handed on, and once while its transaction is
\* remembered.  (ethrpc.rs: notify_check)
THEOREM EventsHandledOnce ==
  ASSUME Streamer.Memory \in Nat
  PROVE  SSpec => []EventsOnce
<1>1. [SNext]_svars /\ ~(part = "streams") => ~(part = "streams")'
  BY PartStays
<1>2. Chain!Spec => []Chain!EventsOnce
  BY Chain!EachOnce
<1>3. Chain!EventsOnce => EventsOnce
  BY DEF EventsOnce, Streams!EventsOnce, Chain!EventsOnce, Streams!HandledOnce, Chain!HandledOnce,
         Streams!OwnerHandles, Chain!OwnerHandles, Streams!HandedOn, Chain!HandedOn, Streams!Reader, Chain!Reader,
         Streams!ToSet, Chain!ToSet
<1>4. ~(part = "streams") => EventsOnce
  BY DEF EventsOnce
<1> QED BY <1>1, <1>2, <1>3, <1>4, StreamsBehave, PTL DEF SSpec

\* Each loss of a connection makes at most one new provider.  (ethrpc.rs: get_provider, thread)
THEOREM OneProvider ==
  ASSUME Streamer.MaxDrops \in Nat
  PROVE  SSpec => []OneProviderPerLoss
<1>1. [SNext]_svars /\ ~(part = "streams") => ~(part = "streams")'
  BY PartStays
<1>2. Chain!Spec => []Chain!OneProviderPerLoss
  BY Chain!OneEach
<1>3. Chain!OneProviderPerLoss => OneProviderPerLoss
  BY DEF OneProviderPerLoss, Streams!OneProviderPerLoss, Chain!OneProviderPerLoss,
         Streams!Cardinality, Chain!Cardinality
<1>4. ~(part = "streams") => OneProviderPerLoss
  BY DEF OneProviderPerLoss
<1> QED BY <1>1, <1>2, <1>3, <1>4, StreamsBehave, PTL DEF SSpec

\* The snode's list is a sequence of peers, and the tester's numbers are numbers.
TestParameters ==
  Tested.Peers \in Seq(Listed) /\ Tested.Attempts \in Int /\ Tested.Window \in Nat

\* A peer in the hands of two agents was given to them a window apart.  (main_loop_cycle)
THEOREM PeersGivenApart ==
  ASSUME TestParameters
  PROVE  SSpec => []SentApart
<1>1. [SNext]_svars /\ ~(part = "test") => ~(part = "test")'
  BY PartStays
<1>2. Nodes!Test!Spec => []Nodes!Test!SentApart
  BY Nodes!GivenApart DEF TestParameters
<1>3. Nodes!Test!SentApart => SentApart
  BY DEF SentApart, Test!SentApart, Nodes!Test!SentApart,
         Test!Nobody, Nodes!Test!Nobody
<1>4. ~(part = "test") => SentApart
  BY DEF SentApart
<1> QED BY <1>1, <1>2, <1>3, <1>4, TestBehave, PTL DEF SSpec

\* A connection is left on the node only for a test that goes on, or by an agent that gave up.
\* (TestAgent::run)
THEOREM ConnectionsGivenUp ==
  ASSUME TestParameters
  PROVE  SSpec => []ConnectionsUsed
<1>1. [SNext]_svars /\ ~(part = "test") => ~(part = "test")'
  BY PartStays
<1>2. Nodes!Test!Spec => []Nodes!Test!ConnectionsUsed
  BY Nodes!ConnectionsFreed DEF TestParameters
<1>3. Nodes!Test!ConnectionsUsed => ConnectionsUsed
  BY DEF ConnectionsUsed, Test!ConnectionsUsed, Nodes!Test!ConnectionsUsed,
         Test!Nobody, Nodes!Test!Nobody
<1>4. ~(part = "test") => ConnectionsUsed
  BY DEF ConnectionsUsed
<1> QED BY <1>1, <1>2, <1>3, <1>4, TestBehave, PTL DEF SSpec

\* A request on the wire has a slot for its answer or was answered.  (register_request, cleanup)
THEOREM SlotBeforeAnswer == SSpec => []AnswerHasSlot
<1>1. [SNext]_svars /\ ~(part = "admin") => ~(part = "admin")'
  BY PartStays
<1>2. Nodes!Spec => []Nodes!AnswerHasSlot
  BY Nodes!SlotBeforeSend
<1>3. Nodes!AnswerHasSlot => AnswerHasSlot
  BY DEF AnswerHasSlot, Admin!AnswerHasSlot, Nodes!AnswerHasSlot
<1>4. ~(part = "admin") => AnswerHasSlot
  BY DEF AnswerHasSlot
<1> QED BY <1>1, <1>2, <1>3, <1>4, AdminBehave, PTL DEF SSpec

\* A subscriber misses nothing between two messages of its stream.  (dispatch_message)
THEOREM StreamWithoutGaps == SSpec => []NoGaps
<1>1. [SNext]_svars /\ ~(part = "admin") => ~(part = "admin")'
  BY PartStays
<1>2. Nodes!Spec => []Nodes!NoGaps
  BY Nodes!StreamsUnbroken
<1>3. Nodes!NoGaps => NoGaps
  BY DEF NoGaps, Admin!NoGaps, Nodes!NoGaps
<1>4. ~(part = "admin") => NoGaps
  BY DEF NoGaps
<1> QED BY <1>1, <1>2, <1>3, <1>4, AdminBehave, PTL DEF SSpec

\* A cached route leads over links that were there since the last rebuild began, and while
\* nothing changes a node is answered with its link to a peer.  (get_route_impl; service.rs, "gr")
THEOREM RoutesAreTrue ==
  ASSUME Lined!Parameters, Paired!Parameters
  PROVE  SSpec => []RoutesHold
<1>1. [SNext]_svars => (~(part = "routes") => ~(part = "routes")') /\ (~(part = "beside") => ~(part = "beside")')
  BY PartStays
<1>2. Lined!Spec => []Lined!RouteWasTrue
  BY Lined!RoutesWereTrue
<1>3. Paired!Spec => []Paired!RouteWasTrue
  BY Paired!RoutesWereTrue
<1>4. Paired!Spec => []Paired!DirectToPeer
  BY Paired!PeersGetTheirLink
<1>5. part = "routes" /\ Lined!RouteWasTrue => RoutesHold
  BY DEF RoutesHold, RouteWasTrue, DirectToPeer, Routes!RouteWasTrue, Lined!RouteWasTrue
<1>6. part = "beside" /\ Paired!RouteWasTrue /\ Paired!DirectToPeer => RoutesHold
  BY DEF RoutesHold, RouteWasTrue, DirectToPeer, Beside!RouteWasTrue, Paired!RouteWasTrue,
         Beside!DirectToPeer, Paired!DirectToPeer
<1>7. ~(part = "routes") /\ ~(part = "beside") => RoutesHold
  BY DEF RoutesHold, RouteWasTrue, DirectToPeer
<1> QED BY <1>1, <1>2, <1>3, <1>4, <1>5, <1>6, <1>7, RoutesBehave, BesideBehave, PTL DEF SSpec

\* A node is answered with peers it may be connected to, with all it can be while there is room, and
\* only with those that came with a public id; the peers in a TXT record were reached by a test not
\* too long ago.  (handle_cred, post_credentials, list_peers, get_seed_txt)
THEOREM SeedsAreRight ==
  ASSUME Lined!Granted, Paired!Granted
  PROVE  SSpec => []SeedsFit
<1>1. [SNext]_svars => (~(part = "seeds") => ~(part = "seeds")') /\ (~(part = "records") => ~(part = "records")')
  BY PartStays
<1>2. Lined!Seeder!Spec =>
        [](Lined!Seeder!AnswersFit /\ Lined!Seeder!AnswersFull /\ Lined!Seeder!FirstIdDecides /\ Lined!Seeder!SeedsTested)
  BY Lined!SeedsRight
<1>3. Paired!Seeder!Spec =>
        [](Paired!Seeder!AnswersFit /\ Paired!Seeder!AnswersFull /\ Paired!Seeder!FirstIdDecides /\ Paired!Seeder!SeedsTested)
  BY Paired!SeedsRight
<1>4. ASSUME part = "seeds", Lined!Seeder!AnswersFit, Lined!Seeder!AnswersFull, Lined!Seeder!FirstIdDecides
      PROVE  SeedsFit
  BY <1>4 DEF SeedsFit, AnswersFit, AnswersFull, FirstIdDecides, SeedsTested,
         Seeds!AnswersFit, Lined!Seeder!AnswersFit, Seeds!AnswersFull, Lined!Seeder!AnswersFull,
         Seeds!FirstIdDecides, Lined!Seeder!FirstIdDecides, Seeds!EntriesOf, Lined!Seeder!EntriesOf,
         Seeds!ToSet, Lined!Seeder!ToSet, Seeds!IsInjective, Lined!Seeder!IsInjective
<1>5. ASSUME part = "records", Paired!Seeder!SeedsTested  PROVE  SeedsFit
  BY <1>5 DEF SeedsFit, AnswersFit, AnswersFull, FirstIdDecides, SeedsTested,
         Records!SeedsTested, Paired!Seeder!SeedsTested, Records!Seeds, Paired!Seeder!Seeds,
         Records!TooOld, Paired!Seeder!TooOld, Records!Never, Paired!Seeder!Never,
         Records!ToSet, Paired!Seeder!ToSet
<1>6. ~(part = "seeds") /\ ~(part = "records") => SeedsFit
  BY DEF SeedsFit, AnswersFit, AnswersFull, FirstIdDecides, SeedsTested
<1> QED BY <1>1, <1>2, <1>3, <1>4, <1>5, <1>6, SeedsBehave, RecordsBehave, PTL DEF SSpec

\* A message in chunks is a stack of bytes, whatever the chunks' size, and whatever is written, read
\* and discarded: its steps are those of the stack.  (Message::write, read, discard)
THEOREM MessagesAreStacks ==
  ASSUME NEW Byte, Message.ChunkSize \in Nat \ {0}, Message.Writes \subseteq Seq(Byte),
         Message.Counts \subseteq Nat
  PROVE  SSpec => BufferIsStack
<1> DEFINE InStack == part = "buffer" => Buffer!Stack!Next
<1>1. Nodes!Buffer!Spec => Nodes!Buffer!Refines
  BY Nodes!MessageIsStack
<1>2. Nodes!Buffer!Stack!Init => Buffer!Stack!Init
  BY BufferSame
<1>3. [Nodes!Buffer!Stack!Next]_(Nodes!Buffer!Stack!vars) /\ [SNext]_svars =>
        [InStack]_<<part, Buffer!bytes, v3>>
  <2>1. [SNext]_svars => part' = part
    BY PartStays
  <2>2. Nodes!Buffer!Stack!Next => Buffer!Stack!Next
    BY BufferSame
  <2>3. UNCHANGED Nodes!Buffer!Stack!vars => UNCHANGED <<Buffer!bytes, v3>>
    BY DEF Nodes!Buffer!Stack!vars, Nodes!Buffer!bytes, Buffer!bytes, Buffer!FlattenSeq, Nodes!Buffer!FlattenSeq,
           Buffer!Reverse, Nodes!Buffer!Reverse
  <2> QED BY <2>1, <2>2, <2>3
<1>4. ~(part = "buffer") /\ [SNext]_svars => (~(part = "buffer"))' /\ [InStack]_<<part, Buffer!bytes, v3>>
  <2>1. ~(part = "buffer") => InStack
    OBVIOUS
  <2> QED BY <2>1, PartStays
<1> QED BY <1>1, <1>2, <1>3, <1>4, BufferBehave, PTL
       DEF SSpec, BufferIsStack, Nodes!Buffer!Refines, Nodes!Buffer!Stack!Spec
=============================================================================
