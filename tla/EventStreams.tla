---------------------------- MODULE EventStreams ----------------------------
(***************************************************************************)
(* The events of a contract (cjdns-eth-rpc, Subscribe): per websocket      *)
(* server and kind of event one task reads a stream.  Every server tells   *)
(* of every transaction; a transaction is taken from the server that told  *)
(* of it first, and remembered for a time.  When a stream ends, its task   *)
(* connects anew, with a provider shared by the tasks of that server.      *)
(*                                                                         *)
(* External: the chain, and the servers, each of which reports a           *)
(* transaction's events when it likes to whoever is subscribed by then.    *)
(***************************************************************************)
EXTENDS Naturals, Sequences, FiniteSets, SequencesExt

CONSTANTS Url, Filter,
          Memory,    \* how long a transaction is remembered (600 seconds)
          MaxTx,     \* bound: transactions
          MaxTime,   \* bound: the clock
          MaxDrops   \* bound: connections lost

VARIABLES now,
          events,    \* the kinds of events each transaction emitted
          told,      \* the transactions a server has reported
          provider,  \* EthRpc.ws: the number of a server's provider
          dropped,   \* the providers of a server that have lost their connection
          minNum,    \* thread's min_num
          used,      \* the provider of a stream, or NotYet
          stream,    \* the transactions whose event a stream has yet to hand over
          txns,      \* EthRpc.txns
          handled,   \* the events handed on or skipped: when, and in whose favour
          heard      \* the transactions each stream was told of

vars == <<now, events, told, provider, dropped, minNum, used, stream, txns, handled, heard>>

Reader == Url \X Filter
NotYet == MaxDrops + 2

Init ==
  /\ now = 0 /\ events = <<>>
  /\ told = [u \in Url |-> 0]
  /\ provider = [u \in Url |-> 0] /\ dropped = [u \in Url |-> {}]
  /\ minNum = [r \in Reader |-> 0] /\ used = [r \in Reader |-> NotYet]
  /\ stream = [r \in Reader |-> <<>>]
  /\ txns = <<>> /\ handled = {} /\ heard = [r \in Reader |-> {}]

Tick ==
  /\ now < MaxTime
  /\ now' = now + 1
  /\ UNCHANGED <<events, told, provider, dropped, minNum, used, stream, txns, handled, heard>>

Emit ==
  /\ Len(events) < MaxTx
  /\ \E kinds \in SUBSET Filter \ {{}} : events' = Append(events, kinds)
  /\ UNCHANGED <<now, told, provider, dropped, minNum, used, stream, txns, handled, heard>>

Connected(r) == used[r] # NotYet /\ used[r] \notin dropped[r[1]]

\* A server reports its next transaction to the streams connected to it.
Tell(u) ==
  /\ told[u] < Len(events)
  /\ told' = [told EXCEPT ![u] = @ + 1]
  /\ LET x == told[u] + 1
         to == { r \in Reader : r[1] = u /\ r[2] \in events[x] /\ Connected(r) }
     IN /\ stream' = [r \in Reader |-> IF r \in to THEN Append(stream[r], x) ELSE stream[r]]
        /\ heard' = [r \in Reader |-> IF r \in to THEN heard[r] \cup {x} ELSE heard[r]]
  /\ UNCHANGED <<now, events, provider, dropped, minNum, used, txns, handled>>

Drop(u) ==
  /\ provider[u] \notin dropped[u]
  /\ Cardinality(UNION { {<<v, n>> : n \in dropped[v]} : v \in Url }) < MaxDrops
  /\ dropped' = [dropped EXCEPT ![u] = @ \cup {provider[u]}]
  /\ UNCHANGED <<now, events, told, provider, minNum, used, stream, txns, handled, heard>>

\* thread: a provider as new as the task wants, made if there is none; one that has lost its
\* connection does not let it subscribe, and it wants a newer one.
Subscribe(r) ==
  /\ used[r] = NotYet
  /\ LET u == r[1]
         made == provider[u] < minNum[r]
         n == IF made THEN minNum[r] ELSE provider[u]
     IN /\ provider' = [provider EXCEPT ![u] = n]
        /\ IF n \in dropped[u]
           THEN minNum' = [minNum EXCEPT ![r] = n + 1] /\ UNCHANGED used
           ELSE used' = [used EXCEPT ![r] = n] /\ UNCHANGED minNum
  /\ UNCHANGED <<now, events, told, dropped, stream, txns, handled, heard>>

\* Mutant of Wanted: one newer than the server's newest.
WantedNewest(r) == provider[r[1]] + 1
Wanted(r) == used[r] + 1

\* handle_events returns once the stream of a lost connection is empty.
Reconnect(r) ==
  /\ used[r] # NotYet /\ used[r] \in dropped[r[1]] /\ stream[r] = <<>>
  /\ minNum' = [minNum EXCEPT ![r] = Wanted(r)]
  /\ used' = [used EXCEPT ![r] = NotYet]
  /\ UNCHANGED <<now, events, told, provider, dropped, stream, txns, handled, heard>>

-----------------------------------------------------------------------------
\* notify_check forgets, from the oldest on, what is older than it remembers.
Forgettable == { n \in DOMAIN txns : \A i \in 1..n : txns[i].at + Memory <= now }
Remembered == SubSeq(txns, Cardinality(Forgettable) + 1, Len(txns))

KnownFrom(x) == { t.url : t \in { e \in ToSet(Remembered) : e.tx = x } }

\* Mutant of Accepts: only the first event of a transaction is taken.
AcceptsFirst(u, x) == KnownFrom(x) = {}
\* Mutant of Accepts: a transaction is taken from every server.
AcceptsAll(u, x) == u \in Url
Accepts(u, x) == KnownFrom(x) \subseteq {u}

\* handle_events: an event of a transaction another server told of is skipped.
Handle(r) ==
  /\ stream[r] # <<>> /\ used[r] # NotYet
  /\ LET x == Head(stream[r])
         u == r[1]
     IN /\ txns' = IF KnownFrom(x) = {}
                  THEN Append(Remembered, [at |-> now, tx |-> x, url |-> u])
                  ELSE Remembered
        /\ handled' = handled \cup
             { [tx |-> x, kind |-> r[2], url |-> u, at |-> now, from |-> v, taken |-> Accepts(u, x)] :
                 v \in IF KnownFrom(x) = {} THEN {u} ELSE KnownFrom(x) }
  /\ stream' = [stream EXCEPT ![r] = Tail(@)]
  /\ UNCHANGED <<now, events, told, provider, dropped, minNum, used, heard>>

Next ==
  \/ Tick \/ Emit
  \/ \E u \in Url : Tell(u) \/ Drop(u)
  \/ \E r \in Reader : Subscribe(r) \/ Reconnect(r) \/ Handle(r)

Spec == Init /\ [][Next]_vars

-----------------------------------------------------------------------------
\* The numbers of providers and of transactions are those there can be.
TypeOK ==
  /\ \A u \in Url : provider[u] \in 0..MaxDrops + 1 /\ told[u] \in 0..MaxTx
  /\ \A r \in Reader : used[r] \in 0..MaxDrops + 1 \cup {NotYet} /\ minNum[r] \in 0..MaxDrops + 1
  /\ \A i \in 1..Len(txns) : txns[i].tx \in 1..MaxTx /\ txns[i].url \in Url

HandedOn == { h \in handled : h.taken }

\* An event told by two servers is handed on twice only if its transaction had been forgotten
\* in between.  (ethrpc.rs: notify_check)
HandledOnce ==
  \A a, b \in HandedOn :
    (a.tx = b.tx /\ a.kind = b.kind /\ a.url # b.url /\ a.at <= b.at) =>
      \E c \in HandedOn : c.tx = a.tx /\ c.at + Memory <= b.at

\* An event skipped in favour of a server whose own stream was told of it is handed on, or
\* waits in that stream - as long as the transaction is remembered.
\* (ethrpc.rs: notify_check, handle_events)
OwnerHandles ==
  \A s \in handled :
    (s.tx \in heard[<<s.from, s.kind>>] /\ \A c \in HandedOn : c.tx = s.tx => now < c.at + Memory) =>
      \/ \E h \in HandedOn : h.tx = s.tx /\ h.kind = s.kind
      \/ s.tx \in ToSet(stream[<<s.from, s.kind>>])

\* Of the events every server tells of, each is handed on, and once.
EventsOnce == HandledOnce /\ OwnerHandles

\* Streams share the provider of their server: each loss of a connection makes one new one.
\* (ethrpc.rs: get_provider, thread)
OneProviderPerLoss == \A u \in Url : provider[u] <= Cardinality(dropped[u])
=============================================================================
