----------------------------- MODULE AdminCalls -----------------------------
(***************************************************************************)
(* Calls of a cjdns node's admin interface.  Callers put requests into the *)
(* dispatch task's queue and wait until it has noted their transaction     *)
(* ids, send them, and wait for the answers, which the task hands over by  *)
(* transaction id; further messages of a stream go to its subscriber by    *)
(* stream id.  A call that takes too long is dropped wherever it waits,    *)
(* and the task ends when the node closes the connection.                  *)
(***************************************************************************)
EXTENDS Naturals, Sequences, FiniteSets

CONSTANTS Call,        \* calls made
          Auth,        \* those that must fetch a cookie first
          Subscribe,   \* those whose answer opens a stream
          QueueBound,  \* REQUEST_QUEUE_BOUND
          StreamBound, \* STREAM_QUEUE_BOUND
          Period,      \* STATE_CLEANUP_PERIOD
          MaxStream,   \* bound on the messages of a stream
          MaxCopies    \* bound on the answers the node sends to one request

VARIABLES pc,       \* where each call is
          txid,     \* its current transaction id, <<call, how many requests are left>>
          asking,   \* the calls queued for the write lock of "dispatch"
          queue,    \* requests on their way to the task
          ready,    \* transaction ids whose "ready" was notified
          up,       \* the task runs
          finished, \* its handle says that it has ended
          requests, \* transaction ids with a response slot
          answered, \* slots that were sent an answer
          streams,  \* stream ids with a sender
          turns,    \* turns of the task since its state was cleaned up
          node,     \* answers the node still may send, by transaction id
          wire,     \* messages on their way from the node
          sent,     \* how many messages of its stream the node sent each subscriber
          inbox,    \* the queue of each subscriber
          got       \* what each subscriber received

vars == <<pc, txid, asking, queue, ready, up, finished, requests, answered, streams, turns, node, wire, sent, inbox, got>>
callers == <<pc, txid, asking>>
task == <<queue, ready, up, finished, requests, answered, streams, turns>>
remote == <<node, wire, sent>>
clients == <<inbox, got>>

Tx == Call \X {0, 1}
InRegister == {"enqueue", "registering"}
Ended == {"answered", "closed", "unresponsive", "failed", "timeout"}

Init ==
  /\ pc = [c \in Call |-> "idle"]
  /\ txid = [c \in Call |-> <<c, IF c \in Auth THEN 1 ELSE 0>>]
  /\ asking = <<>> /\ queue = <<>> /\ ready = {} /\ up = TRUE /\ finished = FALSE
  /\ requests = {} /\ answered = {} /\ streams = {} /\ turns = 0
  /\ node = [t \in Tx |-> 0] /\ wire = <<>> /\ sent = [c \in Call |-> 0]
  /\ inbox = [c \in Call |-> <<>>] /\ got = [c \in Call |-> <<>>]

Goes(c, to) == pc' = [pc EXCEPT ![c] = to]

\* The receiver of a slot is there as long as its call waits for it.
Open(t) == txid[t[1]] = t /\ pc[t[1]] \notin Ended

-----------------------------------------------------------------------------
(* A call.  The read guard is held until the request is registered; tokio's *)
(* lock admits no reader behind a writer that waits.                        *)

Start(c) ==
  /\ pc[c] = "idle" /\ asking = <<>>
  /\ Goes(c, "enqueue")
  /\ UNCHANGED <<txid, asking, task, remote, clients>>

Enqueue(c) ==
  /\ pc[c] = "enqueue" /\ up /\ Len(queue) < QueueBound
  /\ queue' = Append(queue, txid[c])
  /\ Goes(c, "registering")
  /\ UNCHANGED <<txid, asking, ready, up, finished, requests, answered, streams, turns, remote, clients>>

\* The queue has no receiver any more, or the response slot was dropped: the caller asks what
\* became of the task, for which it needs the write lock.
Ask(c) ==
  /\ ~up
  /\ \/ pc[c] = "enqueue"
     \/ pc[c] = "waiting" /\ txid[c] \notin answered
  /\ Goes(c, "asking")
  /\ asking' = Append(asking, c)
  /\ UNCHANGED <<txid, task, remote, clients>>

QueryError(c) ==
  /\ pc[c] = "asking" /\ Head(asking) = c
  /\ \A d \in Call : pc[d] \notin InRegister
  /\ Goes(c, IF finished THEN "closed" ELSE "unresponsive")
  /\ asking' = Tail(asking)
  /\ UNCHANGED <<txid, task, remote, clients>>

\* Mutant of Registered: the request is sent as soon as it is queued.
RegisteredSoon(c) ==
  /\ pc[c] = "registering"
  /\ Goes(c, "sending")
  /\ UNCHANGED <<txid, asking, task, remote, clients>>

Registered(c) ==
  /\ pc[c] = "registering" /\ txid[c] \in ready
  /\ Goes(c, "sending")
  /\ UNCHANGED <<txid, asking, task, remote, clients>>

Send(c) ==
  /\ pc[c] = "sending"
  /\ node' = [node EXCEPT ![txid[c]] = MaxCopies]
  /\ Goes(c, "waiting")
  /\ UNCHANGED <<txid, asking, task, wire, sent, clients>>

\* A socket that does not take the request leaves its slot behind.
SendFails(c) ==
  /\ pc[c] = "sending"
  /\ Goes(c, "failed")
  /\ UNCHANGED <<txid, asking, task, remote, clients>>

\* The answer; that to a cookie's request starts the call proper, with an id of its own.
Answered(c) ==
  /\ pc[c] = "waiting" /\ txid[c] \in answered
  /\ IF txid[c][2] = 0 THEN Goes(c, "answered") /\ UNCHANGED txid
     ELSE Goes(c, "idle") /\ txid' = [txid EXCEPT ![c] = <<c, 0>>]
  /\ UNCHANGED <<asking, task, remote, clients>>

\* time::timeout drops the call where it is, with its guard, its slot and its place in a queue
\* for the lock.  A request already in the task's queue stays there.
TimeOut(c) ==
  /\ pc[c] \notin {"idle"} \cup Ended \/ (pc[c] = "idle" /\ c \in Auth /\ txid[c][2] = 0)
  /\ Goes(c, "timeout")
  /\ asking' = SelectSeq(asking, LAMBDA d : d # c)
  /\ UNCHANGED <<txid, task, remote, clients>>

-----------------------------------------------------------------------------
(* The dispatch task: what waits in its queue or on the wire, one a turn.   *)

Live(ts) == { t \in ts : Open(t) }
HasSubscriber(c) == pc[c] \in {"waiting", "answered"}

\* cleanup() comes after every Period-th turn.
Cleaned(rs, ss) ==
  IF turns + 1 = Period
  THEN turns' = 0 /\ requests' = Live(rs) /\ streams' = { c \in ss : HasSubscriber(c) }
  ELSE turns' = turns + 1 /\ requests' = rs /\ streams' = ss

HandleRequest ==
  /\ up /\ queue # <<>>
  /\ ready' = ready \cup {Head(queue)}
  /\ queue' = Tail(queue)
  /\ Cleaned(requests \cup {Head(queue)}, streams)
  /\ UNCHANGED <<up, finished, answered, callers, remote, clients>>

\* An answer frees its slot, and opens its stream even if nobody waits for it any more.
DispatchAnswer ==
  LET t == wire[1].txid
      opens == IF t[2] = 0 /\ t[1] \in Subscribe THEN {t[1]} ELSE {}
  IN  /\ up /\ wire # <<>> /\ wire[1].n = 0 /\ t \in requests
      /\ answered' = answered \cup Live({t})
      /\ Cleaned(requests \ {t}, streams \cup opens)
      /\ wire' = Tail(wire)
      /\ UNCHANGED <<up, finished, queue, ready, callers, node, sent, clients>>

\* A stream whose queue is full, or whose receiver is gone, is given up altogether.
CanTake(c) == HasSubscriber(c) /\ Len(inbox[c]) < StreamBound

\* Mutant of DispatchStream: only the message is given up.
DispatchStreamSkip ==
  LET c == wire[1].txid[1] IN
  /\ up /\ wire # <<>> /\ wire[1].n > 0 /\ c \in streams
  /\ IF CanTake(c) THEN inbox' = [inbox EXCEPT ![c] = Append(@, wire[1].n)] ELSE UNCHANGED inbox
  /\ Cleaned(requests, streams)
  /\ wire' = Tail(wire)
  /\ UNCHANGED <<up, finished, queue, ready, answered, callers, node, sent, got>>

DispatchStream ==
  LET c == wire[1].txid[1] IN
  /\ up /\ wire # <<>> /\ wire[1].n > 0 /\ c \in streams
  /\ IF CanTake(c)
     THEN inbox' = [inbox EXCEPT ![c] = Append(@, wire[1].n)] /\ Cleaned(requests, streams)
     ELSE Cleaned(requests, streams \ {c}) /\ UNCHANGED inbox
  /\ wire' = Tail(wire)
  /\ UNCHANGED <<up, finished, queue, ready, answered, callers, node, sent, got>>

\* No slot and no stream: the message is logged and left.
DispatchUnknown ==
  /\ up /\ wire # <<>>
  /\ IF wire[1].n = 0 THEN wire[1].txid \notin requests ELSE wire[1].txid[1] \notin streams
  /\ Cleaned(requests, streams)
  /\ wire' = Tail(wire)
  /\ UNCHANGED <<up, finished, queue, ready, answered, callers, node, sent, clients>>

\* The connection is closed: the task drops all it holds, and then has ended.
End ==
  /\ up
  /\ up' = FALSE /\ queue' = <<>> /\ requests' = {} /\ streams' = {} /\ turns' = 0
  /\ UNCHANGED <<ready, finished, answered, callers, remote, clients>>

Finish ==
  /\ ~up /\ ~finished
  /\ finished' = TRUE
  /\ UNCHANGED <<queue, ready, up, requests, answered, streams, turns, callers, remote, clients>>

-----------------------------------------------------------------------------
(* The node, and the subscribers.                                           *)

Answer(t) ==
  /\ node[t] > 0
  /\ node' = [node EXCEPT ![t] = @ - 1]
  /\ wire' = Append(wire, [txid |-> t, n |-> 0])
  /\ UNCHANGED <<sent, callers, task, clients>>

Lose(t) ==
  /\ node[t] > 0
  /\ node' = [node EXCEPT ![t] = 0]
  /\ UNCHANGED <<wire, sent, callers, task, clients>>

Stream(c) ==
  /\ c \in Subscribe /\ pc[c] \notin {"idle", "enqueue", "registering", "sending"}
  /\ txid[c][2] = 0 /\ sent[c] < MaxStream
  /\ sent' = [sent EXCEPT ![c] = @ + 1]
  /\ wire' = Append(wire, [txid |-> <<c, 0>>, n |-> sent[c] + 1])
  /\ UNCHANGED <<node, callers, task, clients>>

Take(c) ==
  /\ pc[c] = "answered" /\ inbox[c] # <<>>
  /\ got' = [got EXCEPT ![c] = Append(@, Head(inbox[c]))]
  /\ inbox' = [inbox EXCEPT ![c] = Tail(@)]
  /\ UNCHANGED <<callers, task, remote>>

Next ==
  \/ \E c \in Call :
       Start(c) \/ Enqueue(c) \/ Ask(c) \/ QueryError(c) \/ Registered(c) \/ Send(c) \/ SendFails(c)
         \/ Answered(c) \/ TimeOut(c) \/ Stream(c) \/ Take(c)
  \/ HandleRequest \/ DispatchAnswer \/ DispatchStream \/ DispatchUnknown \/ End \/ Finish
  \/ \E t \in Tx : Answer(t) \/ Lose(t)

Spec == Init /\ [][Next]_vars

-----------------------------------------------------------------------------
\* Calls are where they can be, no queue is longer than it may be, and the task that ended
\* holds nothing (Dispatch::start, do_dispatch).
TypeOK ==
  /\ pc \in [Call -> {"idle", "sending", "waiting", "asking"} \cup InRegister \cup Ended]
  /\ \A c \in Call : txid[c] \in Tx /\ txid[c][1] = c /\ Len(inbox[c]) <= StreamBound
  /\ Len(queue) <= QueueBound /\ requests \cup ready \cup answered \subseteq Tx
  /\ turns \in 0..(Period - 1)
  /\ ~up => queue = <<>> /\ requests = {} /\ streams = {}

\* From the moment a request may be on the wire, the task has a slot for its answer or has sent
\* it one: no answer is too early, and no cleanup takes the slot of a call that waits
\* (register_request, handle_request, cleanup).
AnswerHasSlot ==
  \A c \in Call : (up /\ pc[c] \in {"sending", "waiting"}) => txid[c] \in requests \cup answered

\* A subscriber never misses a message between two it received (dispatch_message; conn/mod.rs:226
\* "this behavior is considered safer than dropping individual messages from the stream").
NoGaps == \A c \in Call : LET s == got[c] \o inbox[c] IN
  \A i \in 1..(Len(s) - 1) : s[i + 1] = s[i] + 1
=============================================================================
