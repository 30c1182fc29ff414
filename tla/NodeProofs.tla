----------------------------- MODULE NodeProofs -----------------------------
(***************************************************************************)
(* Proofs about what uses a cjdns node.  For any calls, queue lengths and  *)
(* cleanup period, an admin request is never on the wire without a slot    *)
(* for its answer, and what a subscriber receives has no gap.  For any     *)
(* list of peers, any agents, times and capacities, the peer tester gives  *)
(* the same peer to two agents only a window apart, and a connection is    *)
(* used only by an agent that tests.                                       *)
(***************************************************************************)
EXTENDS AdminCalls, Integers, SequenceTheorems, SublistProofs, TLAPS

Place == {"idle", "sending", "waiting", "asking"} \cup InRegister \cup Ended

Types ==
  /\ pc \in [Call -> Place]
  /\ txid \in [Call -> Tx]
  /\ queue \in Seq(Tx)

\* A call has an id of its own; that of the call proper is not used while the cookie is fetched.
OwnId ==
  \A c \in Call :
    /\ txid[c] \in {<<c, 0>>, <<c, 1>>}
    /\ txid[c] = <<c, 1>> => <<c, 0>> \notin ready /\ \A i \in DOMAIN queue : queue[i] # <<c, 0>>

\* What was notified as ready has a slot for as long as its call runs.  (handle_request, cleanup)
ReadyHasSlot ==
  \A c \in Call :
    (up /\ pc[c] \notin Ended /\ txid[c] \in ready) => txid[c] \in requests \cup answered

\* A request is sent when it was notified as ready.  (register_request)
SentIsReady == \A c \in Call : pc[c] \in {"sending", "waiting"} => txid[c] \in ready

Inv == Types /\ OwnId /\ ReadyHasSlot /\ SentIsReady

\* A call moves on, with its request queued perhaps; no call that ended comes back.
LEMMA CallMoves ==
  ASSUME Inv, NEW c \in Call, NEW to \in Place, pc[c] \notin Ended, pc' = [pc EXCEPT ![c] = to],
         to \in {"sending", "waiting"} => txid[c] \in ready,
         UNCHANGED <<txid, ready, up, requests, answered>>,
         queue' = queue \/ queue' = Append(queue, txid[c])
  PROVE  Inv'
<1>1. /\ pc' \in [Call -> Place] /\ pc'[c] = to
      /\ \A d \in Call \ {c} : pc'[d] = pc[d]
  BY DEF Inv, Types
<1>2. queue \in Seq(Tx) /\ txid[c] \in Tx
  BY DEF Inv, Types
<1>3. queue' \in Seq(Tx) /\ \A i \in DOMAIN queue' : (i \in DOMAIN queue /\ queue'[i] = queue[i]) \/ queue'[i] = txid[c]
  <2>1. CASE queue' = queue
    BY <1>2, <2>1
  <2>2. CASE queue' = Append(queue, txid[c])
    <3>1. queue' \in Seq(Tx) /\ Len(queue) \in Nat
      BY <1>2, <2>2
    <3>2. Len(queue') = Len(queue) + 1 /\ DOMAIN queue = 1..Len(queue) /\ DOMAIN queue' = 1..Len(queue')
      BY <1>2, <2>2, <3>1
    <3>3. queue'[Len(queue) + 1] = txid[c] /\ \A i \in 1..Len(queue) : queue'[i] = queue[i]
      BY <1>2, <2>2
    <3> QED BY <3>1, <3>2, <3>3
  <2> QED BY <2>1, <2>2
<1>4. Types'
  BY <1>1, <1>3 DEF Inv, Types
<1>5. OwnId'
  <2> SUFFICES ASSUME NEW d \in Call
               PROVE  /\ txid[d] \in {<<d, 0>>, <<d, 1>>}
                      /\ txid[d] = <<d, 1>> =>
                           <<d, 0>> \notin ready /\ \A i \in DOMAIN queue' : queue'[i] # <<d, 0>>
    BY DEF OwnId
  <2>1. txid[d] \in {<<d, 0>>, <<d, 1>>} /\ txid[c] \in {<<c, 0>>, <<c, 1>>}
    BY DEF Inv, OwnId
  <2>2. ASSUME txid[d] = <<d, 1>>  PROVE  txid[c] # <<d, 0>>
    BY <2>1, <2>2
  <2> QED BY <1>3, <2>1, <2>2 DEF Inv, OwnId
<1>6. ReadyHasSlot' /\ SentIsReady'
  BY <1>1 DEF Inv, ReadyHasSlot, SentIsReady
<1> QED BY <1>4, <1>5, <1>6 DEF Inv

\* The task loses no slot of a call that runs.
LEMMA TaskTurns ==
  ASSUME Inv, UNCHANGED <<pc, txid, up, queue, ready>>, answered \subseteq answered',
         \A c \in Call : pc[c] \notin Ended /\ txid[c] \in requests => txid[c] \in requests' \cup answered'
  PROVE  Inv'
BY DEF Inv, Types, OwnId, ReadyHasSlot, SentIsReady

LEMMA OpenWhileRunning ==
  ASSUME OwnId, NEW c \in Call, pc[c] \notin Ended
  PROVE  Open(txid[c])
<1>1. txid[c] = <<c, 0>> \/ txid[c] = <<c, 1>>
  BY DEF OwnId
<1>2. txid[c][1] = c
  <2>1. CASE txid[c] = <<c, 0>>
    BY <2>1
  <2>2. CASE txid[c] = <<c, 1>>
    BY <2>2
  <2> QED BY <1>1, <2>1, <2>2
<1> QED BY <1>2 DEF Open

\* cleanup() leaves the slots of the calls that run.
LEMMA CleanupKeeps ==
  ASSUME Types, OwnId, NEW rs, NEW ss, Cleaned(rs, ss), NEW c \in Call, pc[c] \notin Ended, txid[c] \in rs
  PROVE  txid[c] \in requests'
<1>1. Open(txid[c])
  BY OpenWhileRunning
<1> QED BY <1>1 DEF Cleaned, Live

LEMMA Inductive == Inv /\ [Next]_vars => Inv'
<1> SUFFICES ASSUME Inv, [Next]_vars  PROVE  Inv'
  OBVIOUS
<1>0. Types /\ OwnId /\ ReadyHasSlot /\ SentIsReady
  BY DEF Inv
<1>1. ASSUME NEW c \in Call, Start(c)  PROVE  Inv'
  BY <1>1, CallMoves DEF Start, Goes, Place, InRegister, Ended, task
<1>2. ASSUME NEW c \in Call, Enqueue(c)  PROVE  Inv'
  BY <1>2, CallMoves DEF Enqueue, Goes, Place, InRegister, Ended
<1>3. ASSUME NEW c \in Call, Ask(c)  PROVE  Inv'
  BY <1>3, CallMoves DEF Ask, Goes, Place, InRegister, Ended, task
<1>4. ASSUME NEW c \in Call, QueryError(c)  PROVE  Inv'
  <2>1. CASE finished
    BY <1>4, <2>1, CallMoves DEF QueryError, Goes, Place, InRegister, Ended, task
  <2>2. CASE ~finished
    BY <1>4, <2>2, CallMoves DEF QueryError, Goes, Place, InRegister, Ended, task
  <2> QED BY <2>1, <2>2
<1>5. ASSUME NEW c \in Call, Registered(c)  PROVE  Inv'
  BY <1>5, CallMoves DEF Registered, Goes, Place, InRegister, Ended, task
<1>6. ASSUME NEW c \in Call, Send(c)  PROVE  Inv'
  BY <1>0, <1>6, CallMoves DEF Send, Goes, Place, InRegister, Ended, task, SentIsReady
<1>7. ASSUME NEW c \in Call, SendFails(c)  PROVE  Inv'
  BY <1>7, CallMoves DEF SendFails, Goes, Place, InRegister, Ended, task
<1>8. ASSUME NEW c \in Call, Answered(c)  PROVE  Inv'
  <2>1. CASE txid[c][2] = 0
    BY <1>8, <2>1, CallMoves DEF Answered, Goes, Place, InRegister, Ended, task
  <2>2. CASE txid[c][2] # 0
    <3>1. /\ pc' = [pc EXCEPT ![c] = "idle"] /\ txid' = [txid EXCEPT ![c] = <<c, 0>>]
          /\ UNCHANGED <<queue, ready, up, requests, answered>>
      BY <1>8, <2>2 DEF Answered, Goes, task
    <3>2. txid[c] = <<c, 1>> /\ <<c, 0>> \in Tx
      BY <1>0, <2>2 DEF OwnId, Tx
    <3>3. /\ pc' \in [Call -> Place] /\ pc'[c] = "idle" /\ \A d \in Call \ {c} : pc'[d] = pc[d]
          /\ txid' \in [Call -> Tx] /\ txid'[c] = <<c, 0>> /\ \A d \in Call \ {c} : txid'[d] = txid[d]
      BY <1>0, <3>1, <3>2 DEF Types, Place
    <3>4. <<c, 0>> # <<c, 1>>
      OBVIOUS
    <3>5. Types'
      BY <1>0, <3>1, <3>3 DEF Types
    <3>6. OwnId'
      BY <1>0, <3>1, <3>3, <3>4 DEF OwnId
    <3>7. ReadyHasSlot'
      <4>1. <<c, 0>> \notin ready
        BY <1>0, <3>2 DEF OwnId
      <4> QED BY <1>0, <3>1, <3>3, <4>1 DEF ReadyHasSlot
    <3>8. SentIsReady'
      BY <1>0, <3>1, <3>3 DEF SentIsReady
    <3> QED BY <3>5, <3>6, <3>7, <3>8 DEF Inv
  <2> QED BY <2>1, <2>2
<1>9. ASSUME NEW c \in Call, TimeOut(c)  PROVE  Inv'
  BY <1>9, CallMoves DEF TimeOut, Goes, Place, InRegister, Ended, task
<1>10. CASE HandleRequest
  <2> DEFINE h == Head(queue)
             rs == requests \cup {h}
  <2>1. /\ queue # <<>> /\ queue' = Tail(queue) /\ ready' = ready \cup {h} /\ Cleaned(rs, streams)
        /\ UNCHANGED <<pc, txid, up, answered>>
    BY <1>10 DEF HandleRequest, callers
  <2>2. queue' \in Seq(Tx) /\ \A i \in DOMAIN queue' : i + 1 \in DOMAIN queue /\ queue'[i] = queue[i + 1]
    <3>1. queue \in Seq(Tx) /\ queue # <<>> /\ queue' = Tail(queue)
      BY <1>0, <2>1 DEF Types
    <3>2. Len(queue) \in Nat /\ Len(queue) > 0 /\ DOMAIN queue = 1..Len(queue)
      BY <3>1
    <3>3. queue' \in Seq(Tx) /\ Len(queue') = Len(queue) - 1 /\ DOMAIN queue' = 1..Len(queue')
      BY <3>1
    <3>4. \A i \in 1..Len(queue) - 1 : queue'[i] = queue[i + 1]
      BY <3>1
    <3> QED BY <3>2, <3>3, <3>4
  <2>3. 1 \in DOMAIN queue /\ h = queue[1]
    <3>1. queue \in Seq(Tx) /\ queue # <<>>
      BY <1>0, <2>1 DEF Types
    <3>2. Len(queue) \in Nat /\ Len(queue) > 0 /\ DOMAIN queue = 1..Len(queue)
      BY <3>1
    <3> QED BY <3>1, <3>2
  <2> HIDE DEF h
  <2>4. Types'
    BY <1>0, <2>1, <2>2 DEF Types
  <2>5. OwnId'
    BY <1>0, <2>1, <2>2, <2>3 DEF OwnId
  <2>6. ReadyHasSlot'
    <3> SUFFICES ASSUME NEW c \in Call, up, pc[c] \notin Ended, txid[c] \in ready \cup {h}
                 PROVE  txid[c] \in requests' \cup answered
      BY <2>1 DEF ReadyHasSlot
    <3>1. CASE txid[c] \in answered
      BY <3>1
    <3>2. CASE txid[c] \in rs
      BY <1>0, <2>1, <3>2, CleanupKeeps
    <3> QED BY <1>0, <3>1, <3>2 DEF ReadyHasSlot
  <2>7. SentIsReady'
    BY <1>0, <2>1 DEF SentIsReady
  <2> QED BY <2>4, <2>5, <2>6, <2>7 DEF Inv
<1>11. CASE DispatchAnswer
  <2> DEFINE t == wire[1].txid
             opens == IF t[2] = 0 /\ t[1] \in Subscribe THEN {t[1]} ELSE {}
  <2>1. /\ UNCHANGED <<pc, txid, up, queue, ready>>
        /\ answered' = answered \cup Live({t}) /\ Cleaned(requests \ {t}, streams \cup opens)
    BY <1>11 DEF DispatchAnswer, callers
  <2> HIDE DEF t, opens
  <2>2. ASSUME NEW c \in Call, pc[c] \notin Ended, txid[c] \in requests
        PROVE  txid[c] \in requests' \cup answered'
    <3>1. CASE txid[c] = t
      <4>1. Open(txid[c])
        BY <1>0, <2>2, OpenWhileRunning
      <4> QED BY <2>1, <3>1, <4>1 DEF Live
    <3>2. CASE txid[c] # t
      BY <1>0, <2>1, <2>2, <3>2, CleanupKeeps
    <3> QED BY <3>1, <3>2
  <2> QED BY <2>1, <2>2, TaskTurns
<1>12. ASSUME UNCHANGED <<pc, txid, up, queue, ready, answered>>, NEW ss, Cleaned(requests, ss)
       PROVE  Inv'
  BY <1>0, <1>12, CleanupKeeps, TaskTurns
<1>13. CASE DispatchStream
  <2>1. UNCHANGED <<pc, txid, up, queue, ready, answered>>
    BY <1>13 DEF DispatchStream, callers
  <2>2. Cleaned(requests, streams) \/ Cleaned(requests, streams \ {wire[1].txid[1]})
    BY <1>13 DEF DispatchStream
  <2> QED BY <1>12, <2>1, <2>2
<1>14. CASE DispatchUnknown
  BY <1>12, <1>14 DEF DispatchUnknown, callers
<1>15. CASE End
  <2>1. ~up' /\ queue' = <<>> /\ UNCHANGED <<pc, txid, ready>>
    BY <1>15 DEF End, callers
  <2> QED BY <1>0, <2>1 DEF Inv, Types, OwnId, ReadyHasSlot, SentIsReady
<1>16. ASSUME UNCHANGED <<pc, txid, up, queue, ready, requests, answered>>  PROVE  Inv'
  BY <1>0, <1>16, TaskTurns
<1>17. CASE Finish
  BY <1>16, <1>17 DEF Finish, callers
<1>18. ASSUME NEW t \in Tx, Answer(t) \/ Lose(t)  PROVE  Inv'
  BY <1>16, <1>18 DEF Answer, Lose, callers, task
<1>19. ASSUME NEW c \in Call, Stream(c) \/ Take(c)  PROVE  Inv'
  BY <1>16, <1>19 DEF Stream, Take, callers, task
<1>20. CASE UNCHANGED vars
  BY <1>16, <1>20 DEF vars
<1> QED
  BY <1>1, <1>2, <1>3, <1>4, <1>5, <1>6, <1>7, <1>8, <1>9, <1>10, <1>11, <1>13, <1>14, <1>15, <1>17,
     <1>18, <1>19, <1>20 DEF Next

\* From the moment a request may be on the wire, the task has a slot for its answer or has sent
\* it one, whatever the calls, the lengths of the queues and the period of the cleanup.
\* (register_request, handle_request, dispatch_message, cleanup)
THEOREM SlotBeforeSend == Spec => []AnswerHasSlot
<1>1. Init => Inv
  BY DEF Init, Inv, Types, OwnId, ReadyHasSlot, SentIsReady, Place, Tx
<1>2. Inv /\ [Next]_vars => Inv'
  BY Inductive
<1>3. Inv => AnswerHasSlot
  BY DEF Inv, ReadyHasSlot, SentIsReady, AnswerHasSlot, Ended
<1> QED BY <1>1, <1>2, <1>3, PTL DEF Spec
-----------------------------------------------------------------------------
(* Streams.                                                                  *)

Message == [txid : Tx, n : Nat]

StreamTypes ==
  /\ wire \in Seq(Message)
  /\ sent \in [Call -> Nat]
  /\ inbox \in [Call -> Seq(Nat)]
  /\ got \in [Call -> Seq(Nat)]

Opener(c) == <<c, 0>>
NotYet(c) == txid[c] = <<c, 1>> \/ pc[c] \in {"idle", "enqueue"}
Queued(c) == \E i \in DOMAIN queue : queue[i] = Opener(c)
Waits(c) == Opener(c) \in requests
Empty(c) == inbox[c] = <<>> /\ got[c] = <<>>

\* A stream is opened once: its request is still to come, is in the queue at one place or has
\* a slot, or is none of these any more.  (register_request, handle_request, dispatch_message)
OpensOnce ==
  \A c \in Call :
    /\ NotYet(c) => ~Queued(c) /\ ~Waits(c)
    /\ \A i, j \in DOMAIN queue : queue[i] = Opener(c) /\ queue[j] = Opener(c) => i = j
    /\ Queued(c) => ~Waits(c)
    /\ NotYet(c) \/ Queued(c) \/ Waits(c) => c \notin streams /\ Empty(c)

\* The messages of c's stream on the wire are the last ones sent, in their order.
Of(c) == { i \in DOMAIN wire : wire[i].txid[1] = c /\ wire[i].n > 0 }
InOrder(c) ==
  /\ \A i \in Of(c) : wire[i].n <= sent[c]
  /\ \A i, j \in Of(c) : i < j => wire[i].n < wire[j].n
  /\ \A i \in Of(c) : wire[i].n < sent[c] => \E j \in Of(c) : wire[j].n = wire[i].n + 1

\* What goes on after the message number l is what is on the wire.
GoesOn(c, l) ==
  /\ l <= sent[c]
  /\ \A i \in Of(c) : wire[i].n > l
  /\ l < sent[c] => \E i \in Of(c) : wire[i].n = l + 1

Handed(c) == got[c] \o inbox[c]
Consecutive(s) == \A i \in 1..(Len(s) - 1) : s[i + 1] = s[i] + 1

\* The subscriber's messages have no gap, and as long as the stream has a sender the next of
\* them is the next on the wire.  (dispatch_message)
Unbroken(c) ==
  /\ Consecutive(Handed(c))
  /\ c \in streams /\ Handed(c) # <<>> => GoesOn(c, Handed(c)[Len(Handed(c))])

StreamInv == StreamTypes /\ OpensOnce /\ \A c \in Call : InOrder(c) /\ Unbroken(c)

\* A subscriber's messages, taken or not.
LEMMA HandedList ==
  ASSUME StreamTypes, NEW c \in Call
  PROVE  /\ Handed(c) \in Seq(Nat)
         /\ Empty(c) => Handed(c) = <<>>
BY ConcatProperties, ConcatEmptySeq, EmptySeq DEF StreamTypes, Handed, Empty

\* The messages of a stream that are on the wire stay as they are.
LEMMA SameMessages ==
  ASSUME NEW c \in Call, Of(c)' = Of(c), sent'[c] = sent[c], \A i \in Of(c) : wire'[i] = wire[i]
  PROVE  /\ InOrder(c) => InOrder(c)'
         /\ \A l : GoesOn(c, l) => GoesOn(c, l)'
<1>1. ASSUME InOrder(c)  PROVE  InOrder(c)'
  <2>1. \A i \in Of(c)' : wire'[i].n <= sent'[c]
    BY <1>1 DEF InOrder
  <2>2. \A i, j \in Of(c)' : i < j => wire'[i].n < wire'[j].n
    BY <1>1 DEF InOrder
  <2>3. \A i \in Of(c)' : wire'[i].n < sent'[c] => \E j \in Of(c)' : wire'[j].n = wire'[i].n + 1
    BY <1>1 DEF InOrder
  <2> QED BY <2>1, <2>2, <2>3 DEF InOrder
<1>2. ASSUME NEW l, GoesOn(c, l)  PROVE  GoesOn(c, l)'
  BY <1>2 DEF GoesOn
<1> QED BY <1>1, <1>2

\* The wire, the streams and the subscribers left alone.
LEMMA SameStreams ==
  ASSUME StreamInv, UNCHANGED <<wire, sent, inbox, got>>, streams' \subseteq streams,
         OpensOnce'
  PROVE  StreamInv'
<1>1. StreamTypes'
  BY DEF StreamInv, StreamTypes
<1>2. ASSUME NEW c \in Call  PROVE  InOrder(c)' /\ Unbroken(c)'
  <2>1. Of(c)' = Of(c) /\ Handed(c)' = Handed(c) /\ wire' = wire /\ sent' = sent
    BY DEF Of, Handed
  <2>2. InOrder(c)' /\ \A l : GoesOn(c, l) => GoesOn(c, l)'
    BY <2>1, SameMessages DEF StreamInv
  <2> QED BY <2>1, <2>2 DEF StreamInv, Unbroken
<1> QED BY <1>1, <1>2 DEF StreamInv

\* What makes no new request and opens no stream keeps OpensOnce.
LEMMA OpensOnceStays ==
  ASSUME OpensOnce, queue' \in {queue, <<>>}, requests' \subseteq requests, streams' \subseteq streams,
         \A c \in Call : NotYet(c)' => NotYet(c),
         \A c \in Call : c \notin streams /\ Empty(c) => Empty(c)'
  PROVE  OpensOnce'
<1> SUFFICES ASSUME NEW c \in Call
             PROVE  /\ NotYet(c)' => ~Queued(c)' /\ ~Waits(c)'
                    /\ \A i, j \in DOMAIN queue' : queue'[i] = Opener(c) /\ queue'[j] = Opener(c) => i = j
                    /\ Queued(c)' => ~Waits(c)'
                    /\ NotYet(c)' \/ Queued(c)' \/ Waits(c)' => c \notin streams' /\ Empty(c)'
  BY DEF OpensOnce, Opener
<1>1. (NotYet(c)' => NotYet(c)) /\ (Queued(c)' => Queued(c)) /\ (Waits(c)' => Waits(c))
  BY DEF Queued, Waits, Opener
<1>2. \A i, j \in DOMAIN queue' : queue'[i] = Opener(c) /\ queue'[j] = Opener(c) => i = j
  BY DEF OpensOnce
<1>3. NotYet(c) \/ Queued(c) \/ Waits(c) => c \notin streams' /\ Empty(c)'
  BY DEF OpensOnce
<1> QED BY <1>1, <1>2, <1>3 DEF OpensOnce

\* The head of the wire is taken off.
LEMMA HeadOff ==
  ASSUME StreamTypes, wire # <<>>, wire' = Tail(wire), NEW c \in Call
  PROVE  /\ wire' \in Seq(Message) /\ 1 \in DOMAIN wire /\ wire[1] \in Message
         /\ \A i \in Of(c)' : i + 1 \in Of(c) /\ i + 1 # 1 /\ wire'[i] = wire[i + 1]
         /\ \A i \in Of(c) : i # 1 => i - 1 \in Of(c)' /\ wire'[i - 1] = wire[i] /\ i > 1
         /\ Of(c) \subseteq Nat /\ \A i \in Of(c) : wire[i].n \in Nat
<1>1. wire \in Seq(Message)
  BY DEF StreamTypes
<1>2. /\ Len(wire) \in Nat \ {0} /\ DOMAIN wire = 1..Len(wire) /\ wire' \in Seq(Message)
      /\ Len(wire') = Len(wire) - 1 /\ DOMAIN wire' = 1..(Len(wire) - 1)
      /\ \A i \in 1..(Len(wire) - 1) : wire'[i] = wire[i + 1]
      /\ \A i \in DOMAIN wire : wire[i] \in Message
  BY <1>1, HeadTailProperties, LenProperties, EmptySeq
<1>3. \A i \in DOMAIN wire' : i + 1 \in DOMAIN wire /\ i + 1 # 1 /\ wire'[i] = wire[i + 1]
  BY <1>2
<1>4. \A i \in DOMAIN wire : i # 1 => i - 1 \in DOMAIN wire' /\ wire'[i - 1] = wire[i] /\ i > 1
  BY <1>2
<1>5. \A i \in DOMAIN wire : i \in Nat /\ wire[i].n \in Nat
  BY <1>2 DEF Message
<1> HIDE <1>2
<1>6. \A i \in Of(c)' : i + 1 \in Of(c) /\ i + 1 # 1 /\ wire'[i] = wire[i + 1]
  BY <1>3 DEF Of
<1>7. \A i \in Of(c) : i # 1 => i - 1 \in Of(c)' /\ wire'[i - 1] = wire[i] /\ i > 1
  BY <1>4 DEF Of
<1>8. Of(c) \subseteq Nat /\ \A i \in Of(c) : wire[i].n \in Nat
  BY <1>5 DEF Of
<1>9. wire' \in Seq(Message) /\ 1 \in DOMAIN wire /\ wire[1] \in Message
  BY <1>2
<1> QED BY <1>6, <1>7, <1>8, <1>9

\* ... which keeps the order of what is left, and what goes on after a message before it.
LEMMA HeadOffOrder ==
  ASSUME StreamTypes, wire # <<>>, wire' = Tail(wire), sent' = sent, NEW c \in Call, InOrder(c)
  PROVE  /\ InOrder(c)'
         /\ \A l \in Nat : GoesOn(c, l) /\ 1 \notin Of(c) => GoesOn(c, l)'
         /\ \A l \in Nat : GoesOn(c, l) /\ 1 \in Of(c) => wire[1].n = l + 1
         /\ \A l \in Nat : 1 \in Of(c) /\ l = wire[1].n => GoesOn(c, l)'
<1>1. /\ \A i \in Of(c)' : i + 1 \in Of(c) /\ i + 1 # 1 /\ wire'[i] = wire[i + 1]
      /\ \A i \in Of(c) : i # 1 => i - 1 \in Of(c)' /\ wire'[i - 1] = wire[i] /\ i > 1
      /\ \A i \in Of(c) : i \in Nat /\ wire[i].n \in Nat
  BY HeadOff
<1>0. sent[c] \in Nat /\ sent'[c] = sent[c]
  BY DEF StreamTypes
<1>2. /\ \A i \in Of(c) : wire[i].n <= sent[c]
      /\ \A i, j \in Of(c) : i < j => wire[i].n < wire[j].n
      /\ \A i \in Of(c) : wire[i].n < sent[c] => \E j \in Of(c) : wire[j].n = wire[i].n + 1
  BY DEF InOrder
<1>3. ASSUME NEW j \in Of(c), j # 1, NEW n, wire[j].n = n
      PROVE  \E i \in Of(c)' : wire'[i].n = n
  <2>1. j - 1 \in Of(c)' /\ wire'[j - 1] = wire[j]
    BY <1>1, <1>3
  <2> QED BY <1>3, <2>1
<1>4. \A i \in Of(c)' : wire'[i].n <= sent'[c]
  BY <1>0, <1>1, <1>2
<1>5. \A i, j \in Of(c)' : i < j => wire'[i].n < wire'[j].n
  <2> TAKE i, j \in Of(c)'
  <2> HAVE i < j
  <2>1. i + 1 \in Of(c) /\ j + 1 \in Of(c) /\ wire'[i] = wire[i + 1] /\ wire'[j] = wire[j + 1]
    BY <1>1
  <2>2. i \in Int /\ j \in Int
    BY DEF Of
  <2>3. i + 1 < j + 1
    BY <2>2
  <2> QED BY <1>2, <2>1, <2>3
<1>6. ASSUME NEW i \in Of(c), 1 \in Of(c)  PROVE  i # 1 => wire[i].n > wire[1].n
  BY <1>1, <1>2, <1>6
<1>7. \A i \in Of(c)' : wire'[i].n < sent'[c] => \E j \in Of(c)' : wire'[j].n = wire'[i].n + 1
  <2> TAKE i \in Of(c)'
  <2> HAVE wire'[i].n < sent'[c]
  <2>1. i + 1 \in Of(c) /\ i + 1 # 1 /\ wire'[i] = wire[i + 1]
    BY <1>1
  <2>2. PICK j \in Of(c) : wire[j].n = wire[i + 1].n + 1
    BY <1>0, <1>2, <2>1
  <2>3. j # 1
    BY <1>1, <1>6, <2>1, <2>2
  <2>4. j - 1 \in Of(c)' /\ wire'[j - 1] = wire[j]
    BY <1>1, <2>3
  <2> QED BY <2>1, <2>2, <2>4
<1>8. ASSUME NEW l \in Nat, GoesOn(c, l), 1 \notin Of(c)  PROVE  GoesOn(c, l)'
  <2>1. \A i \in Of(c)' : wire'[i].n > l
    BY <1>1, <1>8 DEF GoesOn
  <2>2. l < sent[c] => \E j \in Of(c)' : wire'[j].n = l + 1
    BY <1>3, <1>8 DEF GoesOn
  <2> QED BY <1>0, <1>8, <2>1, <2>2 DEF GoesOn
<1>9. ASSUME NEW l \in Nat, GoesOn(c, l), 1 \in Of(c)  PROVE  wire[1].n = l + 1
  <2>1. wire[1].n > l /\ wire[1].n \in Nat /\ wire[1].n <= sent[c]
    BY <1>1, <1>2, <1>9 DEF GoesOn
  <2>2. PICK j \in Of(c) : wire[j].n = l + 1
    BY <1>0, <1>9, <2>1 DEF GoesOn
  <2>3. j = 1 \/ wire[j].n > wire[1].n
    BY <1>6, <1>9
  <2> QED BY <2>1, <2>2, <2>3
<1>10. ASSUME NEW l \in Nat, 1 \in Of(c), l = wire[1].n  PROVE  GoesOn(c, l)'
  <2>1. \A i \in Of(c)' : wire'[i].n > l
    BY <1>1, <1>6, <1>10
  <2>2. l < sent[c] => \E j \in Of(c)' : wire'[j].n = l + 1
    <3> HAVE l < sent[c]
    <3>1. PICK j \in Of(c) : wire[j].n = l + 1
      BY <1>2, <1>10
    <3>2. j # 1
      BY <1>1, <1>10, <3>1
    <3> QED BY <1>3, <3>1, <3>2
  <2>3. l <= sent[c]
    BY <1>2, <1>10
  <2> QED BY <1>0, <2>1, <2>2, <2>3 DEF GoesOn
<1> QED BY <1>4, <1>5, <1>7, <1>8, <1>9, <1>10 DEF InOrder
\* A message of a stream is put at the end of the wire.
LEMMA TailOn ==
  ASSUME StreamTypes, NEW m \in Message, wire' = Append(wire, m)
  PROVE  /\ wire' \in Seq(Message)
         /\ \A c : /\ Of(c) \subseteq Nat /\ \A i \in Of(c) : wire[i].n \in Nat
                   /\ \A i \in Of(c) : wire'[i] = wire[i] /\ i \in Of(c)' /\ i < Len(wire')
                   /\ \A i \in Of(c)' : i \in Of(c) \/ (i = Len(wire') /\ m.n > 0 /\ m.txid[1] = c)
                   /\ m.n > 0 /\ m.txid[1] = c => Len(wire') \in Of(c)'
         /\ wire'[Len(wire')] = m /\ Len(wire') \in Nat
<1>1. wire \in Seq(Message)
  BY DEF StreamTypes
<1>2. /\ Len(wire) \in Nat /\ DOMAIN wire = 1..Len(wire) /\ wire' \in Seq(Message)
      /\ Len(wire') = Len(wire) + 1 /\ DOMAIN wire' = 1..(Len(wire) + 1)
      /\ \A i \in 1..Len(wire) : wire'[i] = wire[i]
      /\ wire'[Len(wire) + 1] = m
      /\ \A i \in DOMAIN wire : wire[i] \in Message
  BY <1>1, AppendProperties, LenProperties
<1>3. /\ \A i \in DOMAIN wire : i \in Nat /\ wire[i].n \in Nat /\ wire'[i] = wire[i] /\ i \in DOMAIN wire' /\ i < Len(wire')
      /\ \A i \in DOMAIN wire' : i \in DOMAIN wire \/ i = Len(wire')
      /\ Len(wire') \in DOMAIN wire' /\ wire'[Len(wire')] = m
  BY <1>2 DEF Message
<1>4. wire' \in Seq(Message) /\ Len(wire') \in Nat
  BY <1>2
<1> HIDE <1>2
<1> QED BY <1>3, <1>4 DEF Of

\* An answer on the wire changes nothing for the streams.
LEMMA AnswerOn ==
  ASSUME StreamInv, OpensOnce', NEW m \in Message, m.n = 0, wire' = Append(wire, m),
         UNCHANGED <<sent, inbox, got, streams>>
  PROVE  StreamInv'
<1>0. StreamTypes
  BY DEF StreamInv
<1>4. ~(m.n > 0)
  OBVIOUS
<1>1. /\ wire' \in Seq(Message)
      /\ \A d : /\ \A i \in Of(d) : wire'[i] = wire[i] /\ i \in Of(d)'
                /\ \A i \in Of(d)' : i \in Of(d)
  BY <1>0, <1>4, TailOn
<1>2. StreamTypes'
  BY <1>0, <1>1 DEF StreamTypes
<1>3. ASSUME NEW c \in Call  PROVE  InOrder(c)' /\ Unbroken(c)'
  <2>6. (\A i \in Of(c)' : i \in Of(c)) /\ (\A i \in Of(c) : i \in Of(c)')
    BY <1>1
  <2>5. Of(c)' = Of(c)
    BY <2>6
  <2>1. /\ Of(c)' = Of(c) /\ sent'[c] = sent[c] /\ streams' = streams
        /\ \A i \in Of(c) : wire'[i] = wire[i]
    BY <1>1, <2>5
  <2>4. Handed(c)' = Handed(c)
    BY DEF Handed
  <2>2. InOrder(c)' /\ \A l : GoesOn(c, l) => GoesOn(c, l)'
    BY <2>1, SameMessages DEF StreamInv
  <2> QED BY <2>1, <2>2, <2>4 DEF StreamInv, Unbroken
<1> QED BY <1>2, <1>3 DEF StreamInv

\* The node sends the next message of a stream.
LEMMA StreamOn ==
  ASSUME StreamInv, OpensOnce', NEW c \in Call, Stream(c)
  PROVE  StreamInv'
<1> DEFINE m == [txid |-> <<c, 0>>, n |-> sent[c] + 1]
           k == Len(wire')
<1>0. StreamTypes /\ sent[c] \in Nat
  BY DEF StreamInv, StreamTypes
<1>1. /\ wire' = Append(wire, m) /\ sent' = [sent EXCEPT ![c] = sent[c] + 1]
      /\ UNCHANGED <<inbox, got, streams>>
  BY DEF Stream, task, clients
<1>2. m \in Message /\ m.n = sent[c] + 1 /\ m.n > 0 /\ m.txid[1] = c
  BY <1>0 DEF Message, Tx
<1> HIDE DEF m
<1>3. /\ wire' \in Seq(Message)
      /\ \A d : /\ Of(d) \subseteq Nat /\ \A i \in Of(d) : wire[i].n \in Nat
                /\ \A i \in Of(d) : wire'[i] = wire[i] /\ i \in Of(d)' /\ i < k
                /\ \A i \in Of(d)' : i \in Of(d) \/ (i = k /\ m.n > 0 /\ m.txid[1] = d)
                /\ m.n > 0 /\ m.txid[1] = d => k \in Of(d)'
      /\ wire'[k] = m /\ k \in Nat
  BY <1>0, <1>1, <1>2, TailOn
<1> HIDE DEF k
<1>4. StreamTypes'
  BY <1>0, <1>1, <1>3 DEF StreamTypes
<1>5. ASSUME NEW d \in Call, d # c  PROVE  InOrder(d)' /\ Unbroken(d)'
  <2>1. /\ Of(d)' = Of(d) /\ Handed(d)' = Handed(d) /\ sent'[d] = sent[d] /\ streams' = streams
        /\ \A i \in Of(d) : wire'[i] = wire[i]
    BY <1>0, <1>1, <1>2, <1>3, <1>5 DEF Handed, StreamTypes
  <2>2. InOrder(d)' /\ \A l : GoesOn(d, l) => GoesOn(d, l)'
    BY <2>1, SameMessages DEF StreamInv
  <2> QED BY <2>1, <2>2 DEF StreamInv, Unbroken
<1>6. sent'[c] = sent[c] + 1
  BY <1>0, <1>1 DEF StreamTypes
<1>7. /\ \A i \in Of(c) : wire[i].n <= sent[c] /\ wire[i].n \in Nat /\ wire'[i] = wire[i] /\ i \in Of(c)' /\ i < k
      /\ \A i, j \in Of(c) : i < j => wire[i].n < wire[j].n
      /\ \A i \in Of(c) : wire[i].n < sent[c] => \E j \in Of(c) : wire[j].n = wire[i].n + 1
      /\ \A i \in Of(c)' : i \in Of(c) \/ i = k
      /\ k \in Of(c)' /\ wire'[k].n = sent[c] + 1 /\ k \in Nat /\ Of(c) \subseteq Nat
  BY <1>2, <1>3 DEF StreamInv, InOrder
<1>8. InOrder(c)'
  <2>1. \A i \in Of(c)' : wire'[i].n <= sent'[c]
    BY <1>0, <1>6, <1>7
  <2>2. \A i, j \in Of(c)' : i < j => wire'[i].n < wire'[j].n
    BY <1>0, <1>7
  <2>3. ASSUME NEW i \in Of(c)', wire'[i].n < sent'[c]
        PROVE  \E j \in Of(c)' : wire'[j].n = wire'[i].n + 1
    <3>0. i # k
      BY <1>0, <1>6, <1>7, <2>3
    <3>1. i \in Of(c) /\ wire'[i] = wire[i]
      BY <1>7, <3>0
    <3>2. CASE wire[i].n < sent[c]
      <4>1. PICK j \in Of(c) : wire[j].n = wire[i].n + 1
        BY <1>7, <3>1, <3>2
      <4>2. j \in Of(c)' /\ wire'[j] = wire[j]
        BY <1>7
      <4> QED BY <3>1, <4>1, <4>2
    <3>3. CASE ~(wire[i].n < sent[c])
      <4>1. wire[i].n = sent[c]
        BY <1>0, <1>7, <3>1, <3>3
      <4> QED BY <1>7, <3>1, <4>1
    <3> QED BY <3>2, <3>3
  <2> QED BY <2>1, <2>2, <2>3 DEF InOrder
<1>9. ASSUME NEW l \in Nat, GoesOn(c, l)  PROVE  GoesOn(c, l)'
  <2>1. l <= sent[c] /\ l <= sent'[c]
    BY <1>0, <1>6, <1>9 DEF GoesOn
  <2>2. \A i \in Of(c)' : wire'[i].n > l
    <3> TAKE i \in Of(c)'
    <3>1. CASE i \in Of(c)
      BY <1>7, <1>9, <3>1 DEF GoesOn
    <3>2. CASE i = k
      BY <1>0, <1>7, <2>1, <3>2
    <3> QED BY <1>7, <3>1, <3>2
  <2>3. \E i \in Of(c)' : wire'[i].n = l + 1
    <3>1. CASE l < sent[c]
      <4>1. PICK i \in Of(c) : wire[i].n = l + 1
        BY <1>9, <3>1 DEF GoesOn
      <4> QED BY <1>7, <4>1
    <3>2. CASE ~(l < sent[c])
      <4>1. l = sent[c]
        BY <1>0, <2>1, <3>2
      <4> QED BY <1>7, <4>1
    <3> QED BY <3>1, <3>2
  <2> QED BY <2>1, <2>2, <2>3 DEF GoesOn
<1>10. Unbroken(c)'
  <2>1. Handed(c)' = Handed(c) /\ streams' = streams
    BY <1>1 DEF Handed
  <2>2. Handed(c) # <<>> => Handed(c)[Len(Handed(c))] \in Nat
    BY <1>0, HandedList, LenProperties, EmptySeq, ElementOfSeq
  <2> QED BY <1>9, <2>1, <2>2 DEF StreamInv, Unbroken
<1> QED BY <1>4, <1>5, <1>8, <1>10 DEF StreamInv

\* A message is taken off the wire that belongs to no stream with a sender.
LEMMA HeadDropped ==
  ASSUME StreamInv, OpensOnce', wire # <<>>, wire' = Tail(wire), UNCHANGED <<sent, inbox, got>>,
         \A c \in Call : c \in streams' => Empty(c) \/ (c \in streams /\ 1 \notin Of(c))
  PROVE  StreamInv'
<1>0. StreamTypes
  BY DEF StreamInv
<1>1. StreamTypes'
  BY <1>0, HeadOff DEF StreamTypes
<1>2. ASSUME NEW c \in Call  PROVE  InOrder(c)' /\ Unbroken(c)'
  <2>1. InOrder(c) /\ Unbroken(c)
    BY DEF StreamInv
  <2>2. InOrder(c)' /\ \A l \in Nat : GoesOn(c, l) /\ 1 \notin Of(c) => GoesOn(c, l)'
    BY <1>0, <2>1, HeadOffOrder
  <2>3. Handed(c)' = Handed(c)
    BY DEF Handed
  <2>4. Handed(c) # <<>> => ~Empty(c) /\ Handed(c)[Len(Handed(c))] \in Nat
    BY <1>0, HandedList, LenProperties, EmptySeq, ElementOfSeq
  <2>5. ASSUME NEW l \in Nat, c \in streams', Handed(c) # <<>>, l = Handed(c)[Len(Handed(c))]
        PROVE  GoesOn(c, l)'
    BY <2>1, <2>2, <2>4, <2>5 DEF Unbroken
  <2> QED BY <2>1, <2>2, <2>3, <2>4, <2>5 DEF Unbroken
<1> QED BY <1>1, <1>2 DEF StreamInv

LEMMA AppendConsecutive ==
  ASSUME NEW s \in Seq(Nat), Consecutive(s), NEW n \in Nat, s # <<>> => n = s[Len(s)] + 1
  PROVE  /\ Append(s, n) # <<>> /\ Consecutive(Append(s, n))
         /\ Append(s, n)[Len(Append(s, n))] = n
<1> DEFINE t == Append(s, n)
<1>1. /\ Len(s) \in Nat /\ t # <<>> /\ Len(t) = Len(s) + 1 /\ t[Len(s) + 1] = n
      /\ \A i \in 1..Len(s) : t[i] = s[i]
      /\ Len(s) # 0 => s # <<>>
  BY AppendProperties, LenProperties, EmptySeq
<1> HIDE DEF t
<1>2. ASSUME NEW i \in 1..(Len(t) - 1)  PROVE  t[i + 1] = t[i] + 1
  <2>1. i \in 1..Len(s) /\ Len(s) # 0
    BY <1>1
  <2>2. CASE i = Len(s)
    BY <1>1, <2>1, <2>2
  <2>3. CASE i # Len(s)
    <3>1. i + 1 \in 1..Len(s) /\ i \in 1..(Len(s) - 1)
      BY <1>1, <2>1, <2>3
    <3> QED BY <1>1, <2>1, <3>1 DEF Consecutive
  <2> QED BY <2>2, <2>3
<1> QED BY <1>1, <1>2 DEF Consecutive, t

\* A message moves from the queue to what was received, or joins the queue.
LEMMA ConcatAppend ==
  ASSUME NEW g \in Seq(Nat), NEW x \in Seq(Nat), NEW n \in Nat
  PROVE  g \o Append(x, n) = Append(g \o x, n)
<1> DEFINE y == Append(x, n)
           z == g \o x
           u == g \o y
           v == Append(z, n)
<1>1. /\ Len(g) \in Nat /\ Len(x) \in Nat /\ y \in Seq(Nat) /\ Len(y) = Len(x) + 1
      /\ \A i \in 1..Len(x) : y[i] = x[i]
      /\ y[Len(x) + 1] = n
  BY AppendProperties, LenProperties
<1>2. /\ z \in Seq(Nat) /\ Len(z) = Len(g) + Len(x)
      /\ \A i \in 1..(Len(g) + Len(x)) : z[i] = IF i <= Len(g) THEN g[i] ELSE x[i - Len(g)]
  BY ConcatProperties
<1> HIDE DEF y, z
<1>3. /\ u \in Seq(Nat) /\ Len(u) = Len(g) + Len(y)
      /\ \A i \in 1..(Len(g) + Len(y)) : u[i] = IF i <= Len(g) THEN g[i] ELSE y[i - Len(g)]
  BY <1>1, ConcatProperties
<1>4. /\ v \in Seq(Nat) /\ Len(v) = Len(z) + 1 /\ v[Len(z) + 1] = n
      /\ \A i \in 1..Len(z) : v[i] = z[i]
  BY <1>2, AppendProperties
<1> HIDE DEF u, v
<1>5. Len(u) = Len(v)
  BY <1>1, <1>2, <1>3, <1>4
<1>6. ASSUME NEW i \in 1..Len(u)  PROVE  u[i] = v[i]
  <2>0. i \in Nat /\ 1 <= i /\ i <= Len(g) + Len(x) + 1 /\ i \in 1..(Len(g) + Len(y))
    BY <1>1, <1>3
  <2>1. CASE i <= Len(g)
    <3>1. i \in 1..Len(z) /\ i \in 1..(Len(g) + Len(x))
      BY <1>1, <1>2, <2>0, <2>1
    <3> QED BY <1>2, <1>3, <1>4, <2>0, <2>1, <3>1
  <2>2. CASE Len(g) < i /\ i <= Len(g) + Len(x)
    <3>1. i - Len(g) \in 1..Len(x) /\ i \in 1..(Len(g) + Len(x)) /\ ~(i <= Len(g))
      BY <1>1, <2>0, <2>2
    <3>2. i \in 1..Len(z)
      BY <1>2, <3>1
    <3> QED BY <1>1, <1>2, <1>3, <1>4, <2>0, <3>1, <3>2
  <2>3. CASE i = Len(g) + Len(x) + 1
    <3>1. i - Len(g) = Len(x) + 1 /\ ~(i <= Len(g)) /\ i = Len(z) + 1
      BY <1>1, <1>2, <2>3
    <3>2. u[i] = y[i - Len(g)]
      BY <1>3, <2>0, <3>1
    <3>3. u[i] = n
      BY <1>1, <3>1, <3>2
    <3>4. v[i] = n
      BY <1>4, <3>1
    <3> QED BY <3>3, <3>4
  <2>4. i <= Len(g) \/ (Len(g) < i /\ i <= Len(g) + Len(x)) \/ i = Len(g) + Len(x) + 1
    <3>1. Len(g) \in Nat /\ Len(x) \in Nat /\ i \in Nat /\ i <= Len(g) + Len(x) + 1
      BY <1>1, <2>0
    <3> QED BY SMTT(30), <3>1
  <2> QED BY <2>1, <2>2, <2>3, <2>4
<1>7. u = v
  BY <1>3, <1>4, <1>5, <1>6, SeqEqual
<1> QED BY <1>7 DEF u, v, y, z

LEMMA ConcatHead ==
  ASSUME NEW g \in Seq(Nat), NEW x \in Seq(Nat), x # <<>>
  PROVE  Append(g, Head(x)) \o Tail(x) = g \o x
<1> DEFINE y == Append(g, Head(x))
           t == Tail(x)
           u == y \o t
           v == g \o x
<1>1. /\ Len(g) \in Nat /\ Len(x) \in Nat \ {0} /\ Head(x) \in Nat /\ Head(x) = x[1]
      /\ t \in Seq(Nat) /\ Len(t) = Len(x) - 1 /\ \A i \in 1..(Len(x) - 1) : t[i] = x[i + 1]
  BY HeadTailProperties, LenProperties, EmptySeq
<1>2. /\ y \in Seq(Nat) /\ Len(y) = Len(g) + 1 /\ y[Len(g) + 1] = x[1]
      /\ \A i \in 1..Len(g) : y[i] = g[i]
  BY <1>1, AppendProperties
<1>3. /\ v \in Seq(Nat) /\ Len(v) = Len(g) + Len(x)
      /\ \A i \in 1..(Len(g) + Len(x)) : v[i] = IF i <= Len(g) THEN g[i] ELSE x[i - Len(g)]
  BY ConcatProperties
<1> HIDE DEF y, t
<1>4. /\ u \in Seq(Nat) /\ Len(u) = Len(y) + Len(t)
      /\ \A i \in 1..(Len(y) + Len(t)) : u[i] = IF i <= Len(y) THEN y[i] ELSE t[i - Len(y)]
  BY <1>1, <1>2, ConcatProperties
<1> HIDE DEF u, v
<1>5. Len(u) = Len(v)
  BY <1>1, <1>2, <1>3, <1>4
<1>6. ASSUME NEW i \in 1..Len(u)  PROVE  u[i] = v[i]
  <2>0. /\ i \in Nat /\ 1 <= i /\ i <= Len(g) + Len(x)
        /\ i \in 1..(Len(y) + Len(t)) /\ i \in 1..(Len(g) + Len(x))
    BY <1>1, <1>2, <1>4
  <2>1. CASE i <= Len(g)
    <3>1. i \in 1..Len(g) /\ i <= Len(y)
      BY <1>1, <1>2, <2>0, <2>1
    <3> QED BY <1>2, <1>3, <1>4, <2>0, <2>1, <3>1
  <2>2. CASE i = Len(g) + 1
    <3>1. i <= Len(y) /\ ~(i <= Len(g)) /\ i - Len(g) = 1
      BY <1>1, <1>2, <2>2
    <3> QED BY <1>2, <1>3, <1>4, <2>0, <2>2, <3>1
  <2>3. CASE i > Len(g) + 1
    <3>1. /\ ~(i <= Len(y)) /\ ~(i <= Len(g))
          /\ i - Len(y) \in 1..(Len(x) - 1) /\ i - Len(y) + 1 = i - Len(g)
      BY SMTT(30), <1>1, <1>2, <2>0, <2>3
    <3> QED BY <1>1, <1>3, <1>4, <2>0, <3>1
  <2> QED BY <1>1, <2>0, <2>1, <2>2, <2>3
<1>7. u = v
  BY <1>3, <1>4, <1>5, <1>6, SeqEqual
<1> QED BY <1>7 DEF u, v, y, t

\* A message is handed to its subscriber.
LEMMA HeadHanded ==
  ASSUME StreamInv, OpensOnce', wire # <<>>, wire' = Tail(wire), wire[1].n > 0, UNCHANGED <<sent, got>>,
         wire[1].txid[1] \in streams,
         inbox' = [inbox EXCEPT ![wire[1].txid[1]] = Append(@, wire[1].n)],
         streams' \subseteq streams
  PROVE  StreamInv'
<1>0. StreamTypes
  BY DEF StreamInv
<1>8. wire[1] \in Message /\ 1 \in DOMAIN wire
  BY <1>0, LenProperties, EmptySeq, ElementOfSeq DEF StreamTypes
<1>9. PICK c \in Call : c = wire[1].txid[1]
  BY <1>8 DEF Message, Tx
<1>10. PICK n \in Nat : n = wire[1].n
  BY <1>8 DEF Message
<1>1. wire' \in Seq(Message)
  BY <1>0, HeadTailProperties DEF StreamTypes
<1>2. /\ inbox' = [inbox EXCEPT ![c] = Append(inbox[c], n)] /\ c \in streams /\ 1 \in Of(c)
      /\ \A d \in Call : d # c => 1 \notin Of(d)
  BY <1>8, <1>9, <1>10 DEF Of
<1>3. /\ inbox' \in [Call -> Seq(Nat)] /\ inbox'[c] = Append(inbox[c], n)
      /\ \A d \in Call : d # c => inbox'[d] = inbox[d]
  <2>1. inbox[c] \in Seq(Nat) /\ inbox \in [Call -> Seq(Nat)]
    BY <1>0, <1>1 DEF StreamTypes
  <2>2. Append(inbox[c], n) \in Seq(Nat)
    BY <1>1, <2>1, AppendProperties
  <2> QED BY <1>1, <1>2, <2>1, <2>2
<1>4. StreamTypes'
  BY <1>0, <1>1, <1>3 DEF StreamTypes
<1>5. \A d \in Call : InOrder(d) /\ Unbroken(d)
  BY DEF StreamInv
<1>6. ASSUME NEW d \in Call, d # c  PROVE  InOrder(d)' /\ Unbroken(d)'
  <2>1. InOrder(d)' /\ \A l \in Nat : GoesOn(d, l) => GoesOn(d, l)'
    BY <1>0, <1>2, <1>5, <1>6, HeadOffOrder
  <2>2. Handed(d)' = Handed(d)
    BY <1>3, <1>6 DEF Handed
  <2>3. Handed(d) # <<>> => Handed(d)[Len(Handed(d))] \in Nat
    BY <1>0, HandedList, LenProperties, EmptySeq, ElementOfSeq
  <2> QED BY <1>5, <2>1, <2>2, <2>3 DEF Unbroken
<1>7. InOrder(c)' /\ Unbroken(c)'
  <2> DEFINE s == Handed(c)
  <2>1. /\ InOrder(c)' /\ GoesOn(c, n)'
        /\ \A l \in Nat : GoesOn(c, l) => n = l + 1
    BY <1>0, <1>2, <1>5, <1>10, HeadOffOrder
  <2>2. s \in Seq(Nat) /\ (s # <<>> => s[Len(s)] \in Nat)
    BY <1>0, <1>1, HandedList, LenProperties, EmptySeq, ElementOfSeq
  <2>3. Handed(c)' = Append(s, n)
    <3>1. got[c] \in Seq(Nat) /\ inbox[c] \in Seq(Nat)
      BY <1>0 DEF StreamTypes
    <3>2. got[c] \o Append(inbox[c], n) = Append(got[c] \o inbox[c], n)
      BY <3>1, ConcatAppend
    <3> QED BY <1>3, <3>2 DEF Handed
  <2>4. Consecutive(s) /\ (s # <<>> => n = s[Len(s)] + 1)
    BY <1>1, <1>2, <1>5, <2>1, <2>2 DEF Unbroken
  <2> HIDE DEF s
  <2>5. Append(s, n) # <<>> /\ Consecutive(Append(s, n)) /\ Append(s, n)[Len(Append(s, n))] = n
    BY <1>1, <2>2, <2>4, AppendConsecutive
  <2>6. Consecutive(Handed(c)') /\ Handed(c)'[Len(Handed(c)')] = n
    BY <2>3, <2>5
  <2> QED BY <2>1, <2>6 DEF Unbroken, Consecutive
<1> QED BY <1>4, <1>6, <1>7 DEF StreamInv

\* The subscriber takes a message.
LEMMA Taken ==
  ASSUME StreamInv, OpensOnce', NEW c \in Call, Take(c)
  PROVE  StreamInv'
<1>0. StreamTypes
  BY DEF StreamInv
<1>1. /\ inbox[c] # <<>> /\ got' = [got EXCEPT ![c] = Append(got[c], Head(inbox[c]))]
      /\ inbox' = [inbox EXCEPT ![c] = Tail(inbox[c])] /\ UNCHANGED <<wire, sent, streams>>
  BY DEF Take, task, remote
<1>2. /\ got[c] \in Seq(Nat) /\ inbox[c] \in Seq(Nat) /\ Head(inbox[c]) \in Nat
      /\ Tail(inbox[c]) \in Seq(Nat) /\ Append(got[c], Head(inbox[c])) \in Seq(Nat)
      /\ <<Head(inbox[c])>> \in Seq(Nat)
  BY <1>0, <1>1, HeadTailProperties, AppendProperties DEF StreamTypes
<1>3. StreamTypes'
  BY <1>0, <1>1, <1>2 DEF StreamTypes
<1>4. ASSUME NEW d \in Call  PROVE  Handed(d)' = Handed(d)
  <2>1. CASE d # c
    BY <1>0, <1>1, <2>1 DEF Handed, StreamTypes
  <2>2. CASE d = c
    <3>1. Handed(c)' = Append(got[c], Head(inbox[c])) \o Tail(inbox[c])
      BY <1>0, <1>1 DEF Handed, StreamTypes
    <3>2. Append(got[c], Head(inbox[c])) \o Tail(inbox[c]) = got[c] \o inbox[c]
      BY <1>1, <1>2, ConcatHead
    <3> QED BY <2>2, <3>1, <3>2 DEF Handed
  <2> QED BY <2>1, <2>2
<1>5. ASSUME NEW d \in Call  PROVE  InOrder(d)' /\ Unbroken(d)'
  <2>1. Of(d)' = Of(d) /\ wire' = wire /\ sent' = sent /\ streams' = streams
    BY <1>1 DEF Of
  <2>2. InOrder(d)' /\ \A l : GoesOn(d, l) => GoesOn(d, l)'
    BY <2>1, SameMessages DEF StreamInv
  <2> QED BY <1>4, <2>1, <2>2 DEF StreamInv, Unbroken
<1> QED BY <1>3, <1>5 DEF StreamInv

\* cleanup() only takes slots and streams away.
LEMMA CleanedLess ==
  ASSUME NEW rs, NEW ss, Cleaned(rs, ss)
  PROVE  requests' \subseteq rs /\ streams' \subseteq ss
BY DEF Cleaned, Live

\* A caller moves on without a new request.
LEMMA CallerSteps ==
  ASSUME StreamInv, Types, NEW c \in Call, NEW to \in Place, pc' = [pc EXCEPT ![c] = to],
         to \in {"idle", "enqueue"} => NotYet(c),
         \A d \in Call : txid'[d] = txid[d] \/ (d = c /\ NotYet(c)),
         UNCHANGED <<queue, requests, streams, wire, sent, inbox, got>>
  PROVE  StreamInv'
<1>1. \A d \in Call : NotYet(d)' => NotYet(d)
  BY DEF NotYet, Types
<1>2. OpensOnce /\ \A d \in Call : Empty(d)' <=> Empty(d)
  BY DEF StreamInv, Empty
<1>3. OpensOnce'
  BY <1>1, <1>2, OpensOnceStays
<1> QED BY <1>3, SameStreams

\* A request goes into the queue.
LEMMA EnqueueKeeps ==
  ASSUME StreamInv, Types, OwnId, NEW c \in Call, Enqueue(c)
  PROVE  StreamInv'
<1>1. /\ pc[c] = "enqueue" /\ pc' = [pc EXCEPT ![c] = "registering"] /\ queue' = Append(queue, txid[c])
      /\ UNCHANGED <<txid, requests, streams, wire, sent, inbox, got>>
  BY DEF Enqueue, Goes, remote, clients
<1>2. /\ queue \in Seq(Tx) /\ txid[c] \in Tx /\ pc' \in [Call -> Place] /\ pc'[c] = "registering"
      /\ \A d \in Call : d # c => pc'[d] = pc[d]
  BY <1>1 DEF Types, Place, InRegister
<1>3. /\ Len(queue) \in Nat /\ DOMAIN queue = 1..Len(queue) /\ DOMAIN queue' = 1..(Len(queue) + 1)
      /\ \A i \in 1..Len(queue) : queue'[i] = queue[i]
      /\ queue'[Len(queue) + 1] = txid[c]
  BY <1>1, <1>2, AppendProperties, LenProperties
<1>4. \A i \in DOMAIN queue' : (i \in DOMAIN queue /\ queue'[i] = queue[i])
                                  \/ (i = Len(queue) + 1 /\ queue'[i] = txid[c])
  BY <1>3
<1>5. txid[c] = <<c, 0>> \/ txid[c] = <<c, 1>>
  BY DEF OwnId
<1>6. \A d \in Call : txid[c] = Opener(d) => d = c /\ txid[c] # <<c, 1>>
  BY <1>5 DEF Opener
<1>7. ASSUME NEW d \in Call
      PROVE  /\ NotYet(d)' => ~Queued(d)' /\ ~Waits(d)'
             /\ \A i, j \in DOMAIN queue' : queue'[i] = Opener(d) /\ queue'[j] = Opener(d) => i = j
             /\ Queued(d)' => ~Waits(d)'
             /\ NotYet(d)' \/ Queued(d)' \/ Waits(d)' => d \notin streams' /\ Empty(d)'
  <2>1. /\ NotYet(d) => ~Queued(d) /\ ~Waits(d)
        /\ \A i, j \in DOMAIN queue : queue[i] = Opener(d) /\ queue[j] = Opener(d) => i = j
        /\ Queued(d) => ~Waits(d)
        /\ NotYet(d) \/ Queued(d) \/ Waits(d) => d \notin streams /\ Empty(d)
    BY DEF StreamInv, OpensOnce
  <2>2. /\ Waits(d)' <=> Waits(d)
        /\ Empty(d)' <=> Empty(d)
        /\ streams' = streams
        /\ NotYet(d)' => NotYet(d)
    BY <1>1, <1>2 DEF Waits, Empty, NotYet, Opener
  <2>3. CASE txid[c] = Opener(d)
    <3>1. d = c /\ NotYet(c) /\ ~NotYet(c)'
      BY <1>1, <1>2, <1>6, <2>3 DEF NotYet
    <3>2. ~Queued(d) /\ ~Waits(d) /\ Empty(d) /\ d \notin streams
      BY <2>1, <3>1
    <3>3. \A i \in DOMAIN queue' : queue'[i] = Opener(d) => i = Len(queue) + 1
      BY <1>4, <3>2 DEF Queued
    <3> QED BY <2>2, <3>1, <3>2, <3>3
  <2>4. CASE txid[c] # Opener(d)
    <3>1. \A i \in DOMAIN queue' : queue'[i] = Opener(d) => i \in DOMAIN queue /\ queue[i] = Opener(d)
      BY <1>4, <2>4
    <3>2. Queued(d)' => Queued(d)
      BY <3>1 DEF Queued, Opener
    <3> QED BY <2>1, <2>2, <3>1, <3>2
  <2> QED BY <2>3, <2>4
<1>8. OpensOnce'
  BY <1>7 DEF OpensOnce, Opener
<1> QED BY <1>1, <1>8, SameStreams

\* The first in the queue gets its slot.
LEMMA RequestKeeps ==
  ASSUME StreamInv, Types, OwnId, HandleRequest
  PROVE  StreamInv'
<1> DEFINE h == Head(queue)
<1>1. /\ queue \in Seq(Tx) /\ queue # <<>> /\ queue' = Tail(queue)
      /\ Cleaned(requests \cup {h}, streams)
      /\ UNCHANGED <<pc, txid, wire, sent, inbox, got>>
  BY DEF HandleRequest, Types, callers, remote, clients
<1>2. requests' \subseteq requests \cup {h} /\ streams' \subseteq streams
  BY <1>1, CleanedLess
<1>3. /\ Len(queue) \in Nat \ {0} /\ DOMAIN queue = 1..Len(queue) /\ h = queue[1]
      /\ DOMAIN queue' = 1..(Len(queue) - 1)
      /\ \A i \in 1..(Len(queue) - 1) : queue'[i] = queue[i + 1]
  BY <1>1, HeadTailProperties, LenProperties, EmptySeq
<1>4. /\ 1 \in DOMAIN queue
      /\ \A i \in DOMAIN queue' : i + 1 \in DOMAIN queue /\ i + 1 # 1 /\ queue'[i] = queue[i + 1]
      /\ \A i, j \in DOMAIN queue' : i + 1 = j + 1 => i = j
  BY <1>3
<1> HIDE DEF h
<1>5. ASSUME NEW d \in Call
      PROVE  /\ NotYet(d)' => ~Queued(d)' /\ ~Waits(d)'
             /\ \A i, j \in DOMAIN queue' : queue'[i] = Opener(d) /\ queue'[j] = Opener(d) => i = j
             /\ Queued(d)' => ~Waits(d)'
             /\ NotYet(d)' \/ Queued(d)' \/ Waits(d)' => d \notin streams' /\ Empty(d)'
  <2>1. /\ NotYet(d) => ~Queued(d) /\ ~Waits(d)
        /\ \A i, j \in DOMAIN queue : queue[i] = Opener(d) /\ queue[j] = Opener(d) => i = j
        /\ Queued(d) => ~Waits(d)
        /\ NotYet(d) \/ Queued(d) \/ Waits(d) => d \notin streams /\ Empty(d)
    BY DEF StreamInv, OpensOnce
  <2>2. /\ NotYet(d)' <=> NotYet(d)
        /\ Empty(d)' <=> Empty(d)
        /\ d \in streams' => d \in streams
        /\ Waits(d)' => Waits(d) \/ h = Opener(d)
    BY <1>1, <1>2 DEF NotYet, Empty, Waits, Opener
  <2>3. h = Opener(d) => Queued(d)
    BY <1>3, <1>4 DEF Queued
  <2>4. Queued(d)' => Queued(d) /\ h # Opener(d)
    <3>1. ASSUME NEW i \in DOMAIN queue', queue'[i] = Opener(d)  PROVE  Queued(d) /\ h # Opener(d)
      BY <1>3, <1>4, <2>1, <3>1 DEF Queued
    <3> QED BY <3>1 DEF Queued, Opener
  <2>5. \A i, j \in DOMAIN queue' : queue'[i] = Opener(d) /\ queue'[j] = Opener(d) => i = j
    BY <1>4, <2>1
  <2> QED BY <2>1, <2>2, <2>3, <2>4, <2>5
<1>6. OpensOnce'
  BY <1>5 DEF OpensOnce, Opener
<1> QED BY <1>1, <1>2, <1>6, SameStreams

\* An answer frees its slot, and opens the stream that waited for it.
LEMMA AnswerKeeps ==
  ASSUME StreamInv, DispatchAnswer
  PROVE  StreamInv'
<1> DEFINE t == wire[1].txid
           opens == IF t[2] = 0 /\ t[1] \in Subscribe THEN {t[1]} ELSE {}
<1>0. StreamTypes /\ OpensOnce
  BY DEF StreamInv
<1>1. /\ wire # <<>> /\ wire[1].n = 0 /\ t \in requests /\ wire' = Tail(wire)
      /\ Cleaned(requests \ {t}, streams \cup opens)
      /\ UNCHANGED <<pc, txid, queue, sent, inbox, got>>
  BY DEF DispatchAnswer, callers, clients
<1>2. requests' \subseteq requests \ {t} /\ streams' \subseteq streams \cup opens
  BY <1>1, CleanedLess
<1>3. wire[1] \in Message
  BY <1>0, <1>1, LenProperties, EmptySeq, ElementOfSeq DEF StreamTypes
<1>4. t = <<t[1], t[2]>>
  BY <1>3 DEF Message, Tx
<1>5. \A d \in opens : t = Opener(d) /\ Waits(d)
  BY <1>1, <1>4 DEF Opener, Waits
<1>8. \A d : 1 \notin Of(d)
  BY <1>1 DEF Of
<1> HIDE DEF t, opens
<1>6. ASSUME NEW d \in Call
      PROVE  /\ NotYet(d)' => ~Queued(d)' /\ ~Waits(d)'
             /\ \A i, j \in DOMAIN queue' : queue'[i] = Opener(d) /\ queue'[j] = Opener(d) => i = j
             /\ Queued(d)' => ~Waits(d)'
             /\ NotYet(d)' \/ Queued(d)' \/ Waits(d)' => d \notin streams' /\ Empty(d)'
             /\ d \in streams' => Empty(d) \/ d \in streams
  <2>1. /\ NotYet(d) => ~Queued(d) /\ ~Waits(d)
        /\ \A i, j \in DOMAIN queue : queue[i] = Opener(d) /\ queue[j] = Opener(d) => i = j
        /\ Queued(d) => ~Waits(d)
        /\ NotYet(d) \/ Queued(d) \/ Waits(d) => d \notin streams /\ Empty(d)
    BY <1>0 DEF OpensOnce
  <2>2. /\ NotYet(d)' <=> NotYet(d)
        /\ Queued(d)' <=> Queued(d)
        /\ Empty(d)' <=> Empty(d)
        /\ queue' = queue
    BY <1>1 DEF NotYet, Queued, Empty, Opener
  <2>3. Waits(d)' => Waits(d) /\ t # Opener(d)
    BY <1>2 DEF Waits, Opener
  <2>4. d \in streams' => d \in streams \/ (Waits(d) /\ t = Opener(d))
    BY <1>2, <1>5
  <2> QED BY <2>1, <2>2, <2>3, <2>4
<1>7. OpensOnce'
  BY <1>6 DEF OpensOnce, Opener
<1> QED BY <1>1, <1>6, <1>7, <1>8, HeadDropped

\* A message for a stream with a sender: handed over, or the stream is given up.
LEMMA StreamMessageKeeps ==
  ASSUME StreamInv, DispatchStream
  PROVE  StreamInv'
<1> DEFINE c == wire[1].txid[1]
<1>0. StreamTypes /\ OpensOnce
  BY DEF StreamInv
<1>1. /\ wire # <<>> /\ wire[1].n > 0 /\ c \in streams /\ wire' = Tail(wire)
      /\ UNCHANGED <<pc, txid, queue, sent, got>>
  BY DEF DispatchStream, callers
<1>3. CASE CanTake(c)
  <2>1. inbox' = [inbox EXCEPT ![c] = Append(@, wire[1].n)] /\ Cleaned(requests, streams)
    BY <1>3 DEF DispatchStream
  <2>2. requests' \subseteq requests /\ streams' \subseteq streams
    BY <2>1, CleanedLess
  <2>3. \A d \in Call : NotYet(d)' => NotYet(d)
    BY <1>1 DEF NotYet
  <2>4. \A d \in Call : d \notin streams /\ Empty(d) => Empty(d)'
    BY <1>0, <1>1, <2>1 DEF Empty, StreamTypes
  <2>5. OpensOnce'
    BY <1>0, <1>1, <2>2, <2>3, <2>4, OpensOnceStays
  <2> QED BY <1>1, <2>1, <2>2, <2>5, HeadHanded
<1>4. CASE ~CanTake(c)
  <2>1. inbox' = inbox /\ Cleaned(requests, streams \ {c})
    BY <1>4 DEF DispatchStream
  <2>2. requests' \subseteq requests /\ streams' \subseteq streams \ {c}
    BY <2>1, CleanedLess
  <2>3. \A d \in Call : (NotYet(d)' => NotYet(d)) /\ (Empty(d) => Empty(d)')
    BY <1>1, <2>1 DEF NotYet, Empty
  <2>4. OpensOnce'
    BY <1>0, <1>1, <2>2, <2>3, OpensOnceStays
  <2>5. \A d \in Call : d \in streams' => d \in streams /\ 1 \notin Of(d)
    BY <2>2 DEF Of
  <2> QED BY <1>1, <2>1, <2>4, <2>5, HeadDropped
<1> QED BY <1>3, <1>4

\* A message that nobody waits for.
LEMMA UnknownKeeps ==
  ASSUME StreamInv, DispatchUnknown
  PROVE  StreamInv'
<1>0. OpensOnce
  BY DEF StreamInv
<1>1. /\ wire # <<>> /\ wire' = Tail(wire) /\ Cleaned(requests, streams)
      /\ wire[1].n = 0 \/ wire[1].txid[1] \notin streams
      /\ UNCHANGED <<pc, txid, queue, sent, inbox, got>>
  BY DEF DispatchUnknown, callers, clients
<1>2. requests' \subseteq requests /\ streams' \subseteq streams
  BY <1>1, CleanedLess
<1>3. \A d \in Call : (NotYet(d)' => NotYet(d)) /\ (Empty(d) => Empty(d)')
  BY <1>1 DEF NotYet, Empty
<1>4. OpensOnce'
  BY <1>0, <1>1, <1>2, <1>3, OpensOnceStays
<1>5. \A d \in Call : d \in streams' => d \in streams /\ 1 \notin Of(d)
  BY <1>1, <1>2 DEF Of
<1> QED BY <1>1, <1>4, <1>5, HeadDropped

\* Nothing of a stream or of its request changes, but the task may drop what it holds.
LEMMA QuietStep ==
  ASSUME StreamInv, UNCHANGED <<pc, txid, wire, sent, inbox, got>>, queue' \in {queue, <<>>},
         requests' \subseteq requests, streams' \subseteq streams
  PROVE  StreamInv'
<1>1. OpensOnce /\ \A d \in Call : (NotYet(d)' => NotYet(d)) /\ (Empty(d) => Empty(d)')
  BY DEF StreamInv, NotYet, Empty
<1>2. OpensOnce'
  BY <1>1, OpensOnceStays
<1> QED BY <1>2, SameStreams

LEMMA StreamInductive == Inv /\ StreamInv /\ [Next]_vars => StreamInv'
<1> SUFFICES ASSUME Inv, StreamInv, [Next]_vars  PROVE  StreamInv'
  OBVIOUS
<1>0. Types /\ OwnId /\ StreamTypes /\ OpensOnce
  BY DEF Inv, StreamInv
<1>1. ASSUME NEW c \in Call, Start(c)  PROVE  StreamInv'
  BY <1>0, <1>1, CallerSteps DEF Start, Goes, Place, InRegister, NotYet, task, remote, clients
<1>2. ASSUME NEW c \in Call, Enqueue(c)  PROVE  StreamInv'
  BY <1>0, <1>2, EnqueueKeeps
<1>3. ASSUME NEW c \in Call, Ask(c)  PROVE  StreamInv'
  BY <1>0, <1>3, CallerSteps DEF Ask, Goes, Place, task, remote, clients
<1>4. ASSUME NEW c \in Call, QueryError(c)  PROVE  StreamInv'
  <2>1. PICK to \in {"closed", "unresponsive"} : pc' = [pc EXCEPT ![c] = to]
    BY <1>4 DEF QueryError, Goes
  <2>2. to \in Place /\ to \notin {"idle", "enqueue"}
    BY DEF Place, Ended
  <2> QED BY <1>0, <1>4, <2>1, <2>2, CallerSteps DEF QueryError, task, remote, clients
<1>5. ASSUME NEW c \in Call, Registered(c)  PROVE  StreamInv'
  BY <1>0, <1>5, CallerSteps DEF Registered, Goes, Place, task, remote, clients
<1>6. ASSUME NEW c \in Call, Send(c)  PROVE  StreamInv'
  BY <1>0, <1>6, CallerSteps DEF Send, Goes, Place, task, clients
<1>7. ASSUME NEW c \in Call, SendFails(c)  PROVE  StreamInv'
  BY <1>0, <1>7, CallerSteps DEF SendFails, Goes, Place, Ended, task, remote, clients
<1>8. ASSUME NEW c \in Call, Answered(c)  PROVE  StreamInv'
  <2>1. CASE txid[c][2] = 0
    BY <1>0, <1>8, <2>1, CallerSteps DEF Answered, Goes, Place, Ended, task, remote, clients
  <2>2. CASE txid[c][2] # 0
    <3>1. NotYet(c)
      <4>1. txid[c] \in {<<c, 0>>, <<c, 1>>}
        BY <1>0 DEF OwnId
      <4> QED BY <2>2, <4>1 DEF NotYet
    <3>2. /\ pc' = [pc EXCEPT ![c] = "idle"] /\ txid' = [txid EXCEPT ![c] = <<c, 0>>]
          /\ UNCHANGED <<queue, requests, streams, wire, sent, inbox, got>>
      BY <1>8, <2>2 DEF Answered, Goes, task, remote, clients
    <3>3. \A d \in Call : txid'[d] = txid[d] \/ d = c
      BY <1>0, <3>2 DEF Types
    <3> QED BY <1>0, <3>1, <3>2, <3>3, CallerSteps DEF Place
  <2> QED BY <2>1, <2>2
<1>9. ASSUME NEW c \in Call, TimeOut(c)  PROVE  StreamInv'
  BY <1>0, <1>9, CallerSteps DEF TimeOut, Goes, Place, Ended, task, remote, clients
<1>10. CASE HandleRequest
  BY <1>0, <1>10, RequestKeeps
<1>11. CASE DispatchAnswer
  BY <1>11, AnswerKeeps
<1>12. CASE DispatchStream
  BY <1>12, StreamMessageKeeps
<1>13. CASE DispatchUnknown
  BY <1>13, UnknownKeeps
<1>14. CASE End
  BY <1>14, QuietStep DEF End, callers, remote, clients
<1>15. CASE Finish
  BY <1>15, QuietStep DEF Finish, callers, remote, clients
<1>16. ASSUME NEW t \in Tx, Answer(t)  PROVE  StreamInv'
  <2>1. /\ wire' = Append(wire, [txid |-> t, n |-> 0])
        /\ UNCHANGED <<pc, txid, queue, requests, sent, inbox, got, streams>>
    BY <1>16 DEF Answer, callers, task, clients
  <2>2. \A d \in Call : (NotYet(d)' => NotYet(d)) /\ (Empty(d) => Empty(d)')
    BY <2>1 DEF NotYet, Empty
  <2>3. OpensOnce'
    BY <1>0, <2>1, <2>2, OpensOnceStays
  <2> QED BY <2>1, <2>3, AnswerOn DEF Message
<1>17. ASSUME NEW t \in Tx, Lose(t)  PROVE  StreamInv'
  BY <1>17, QuietStep DEF Lose, callers, task, clients
<1>18. ASSUME NEW c \in Call, Stream(c)  PROVE  StreamInv'
  <2>1. UNCHANGED <<pc, txid, queue, requests, inbox, got, streams>>
    BY <1>18 DEF Stream, callers, task, clients
  <2>2. \A d \in Call : (NotYet(d)' => NotYet(d)) /\ (Empty(d) => Empty(d)')
    BY <2>1 DEF NotYet, Empty
  <2>3. OpensOnce'
    BY <1>0, <2>1, <2>2, OpensOnceStays
  <2> QED BY <1>18, <2>3, StreamOn
<1>19. ASSUME NEW c \in Call, Take(c)  PROVE  StreamInv'
  <2>1. /\ inbox[c] # <<>> /\ UNCHANGED <<pc, txid, queue, requests, streams>>
        /\ got' = [got EXCEPT ![c] = Append(@, Head(inbox[c]))]
        /\ inbox' = [inbox EXCEPT ![c] = Tail(@)]
    BY <1>19 DEF Take, callers, task
  <2>2. \A d \in Call : (NotYet(d)' => NotYet(d)) /\ (Empty(d) => Empty(d)')
    <3> SUFFICES ASSUME NEW d \in Call, Empty(d)  PROVE  Empty(d)'
      BY <2>1 DEF NotYet
    <3>1. d # c
      BY <2>1 DEF Empty
    <3> QED BY <1>0, <2>1, <3>1 DEF Empty, StreamTypes
  <2>3. OpensOnce'
    BY <1>0, <2>1, <2>2, OpensOnceStays
  <2> QED BY <1>19, <2>3, Taken
<1>20. CASE UNCHANGED vars
  BY <1>20, QuietStep DEF vars
<1> QED
  BY <1>1, <1>2, <1>3, <1>4, <1>5, <1>6, <1>7, <1>8, <1>9, <1>10, <1>11, <1>12, <1>13, <1>14, <1>15,
     <1>16, <1>17, <1>18, <1>19, <1>20 DEF Next

LEMMA StreamsStart == Init => StreamInv
<1> SUFFICES ASSUME Init  PROVE  StreamInv
  OBVIOUS
<1>1. /\ pc = [c \in Call |-> "idle"] /\ queue = <<>> /\ requests = {} /\ streams = {} /\ wire = <<>>
      /\ sent = [c \in Call |-> 0] /\ inbox = [c \in Call |-> <<>>] /\ got = [c \in Call |-> <<>>]
  BY DEF Init
<1>2. StreamTypes
  BY <1>1, EmptySeq DEF StreamTypes
<1>3. OpensOnce
  BY <1>1 DEF OpensOnce, NotYet, Queued, Waits, Empty
<1>4. ASSUME NEW c \in Call  PROVE  InOrder(c) /\ Unbroken(c)
  <2>1. Of(c) = {} /\ Empty(c)
    BY <1>1 DEF Of, Empty
  <2>2. Handed(c) = <<>>
    BY <1>2, <2>1, HandedList
  <2>3. 1..(Len(<<>>) - 1) = {}
    BY LenProperties, EmptySeq
  <2> QED BY <2>1, <2>2, <2>3 DEF InOrder, Unbroken, Consecutive
<1> QED BY <1>2, <1>3, <1>4 DEF StreamInv

\* A subscriber never misses a message between two it received: not when its queue is full and
\* its stream is given up, nor when answers and messages come late, whatever the calls and the
\* bounds.  (dispatch_message, cleanup)
THEOREM StreamsUnbroken == Spec => []NoGaps
<1>1. Init => Inv /\ StreamInv
  <2>1. Init => Inv
    BY DEF Init, Inv, Types, OwnId, ReadyHasSlot, SentIsReady, Place, Tx
  <2> QED BY <2>1, StreamsStart
<1>2. Inv /\ StreamInv /\ [Next]_vars => (Inv /\ StreamInv)'
  BY Inductive, StreamInductive
<1>3. StreamInv => NoGaps
  BY DEF StreamInv, Unbroken, Consecutive, Handed, NoGaps
<1> QED BY <1>1, <1>2, <1>3, PTL DEF Spec

-----------------------------------------------------------------------------
(* The peer tester.                                                        *)

CONSTANTS Peers, Agent, Retest, Window, Patience, Attempts, Cap, MaxNow,
          Peer  \* what Peers lists
VARIABLES now, checked, todo, nows, testing, phase, nodes, tasks, results, agent, conn

Test == INSTANCE Tester

Task == [peer : Peer, sent : Nat]
Memo == [peer : Peer, since : Nat]
Fetched == [peer : Peer, check : Int]
AgentState ==
  [at : {"idle", "begin", "testing", "report"}, peer : Peer \cup {Test!Nobody}, sent : Int, since : Int,
   attempt : Int, res : {"none", "ok", "bad", "connected", "timeout"}]

TestTypes ==
  /\ now \in Nat /\ nows \in Nat /\ nows <= now
  /\ checked \in [Test!ToSet(Peers) -> Int]
  /\ todo \in Seq(Fetched)
  /\ tasks \in Seq(Task)
  /\ agent \in [Agent -> AgentState]
  /\ testing \in SUBSET Memo

\* What was sent is remembered until it is a window old.  (main_loop_cycle)
Tracked(t, s, memo, n) == s <= n /\ ([peer |-> t, since |-> s] \in memo \/ s + Window <= n)
Apart(s, t) == s + Window <= t \/ t + Window <= s
InHand(state) == state.peer # Test!Nobody

TestInv ==
  /\ TestTypes
  /\ \A i \in DOMAIN tasks : Tracked(tasks[i].peer, tasks[i].sent, testing, nows)
  /\ \A a \in Agent : InHand(agent[a]) => Tracked(agent[a].peer, agent[a].sent, testing, nows)
  /\ \A i, j \in DOMAIN tasks : i # j /\ tasks[i].peer = tasks[j].peer => Apart(tasks[i].sent, tasks[j].sent)
  /\ \A i \in DOMAIN tasks, a \in Agent :
       InHand(agent[a]) /\ tasks[i].peer = agent[a].peer => Apart(tasks[i].sent, agent[a].sent)
  /\ \A a, b \in Agent :
       InHand(agent[a]) /\ a # b /\ agent[a].peer = agent[b].peer => Apart(agent[a].sent, agent[b].sent)

\* Steps that neither send, take nor report.
LEMMA OtherStep ==
  ASSUME TestInv, TestTypes', UNCHANGED <<nows, testing, tasks>>,
         \A a \in Agent : agent'[a].peer = agent[a].peer /\ agent'[a].sent = agent[a].sent
  PROVE  TestInv'
BY DEF TestInv, Tracked, Apart, InHand

\* What an agent does between taking a peer and reporting it leaves the peer in its hand.
LEMMA EndedKeeps ==
  ASSUME agent \in [Agent -> AgentState], Attempts \in Int, NEW a \in Agent,
         NEW res \in {"ok", "bad", "connected", "timeout"}
  PROVE  /\ Test!Ended(a, res) \in [Agent -> AgentState]
         /\ \A b \in Agent : Test!Ended(a, res)[b].peer = agent[b].peer /\ Test!Ended(a, res)[b].sent = agent[b].sent
<1> DEFINE x == IF res = "ok" \/ agent[a].attempt >= Attempts THEN "report" ELSE "begin"
           y == IF res = "ok" \/ agent[a].attempt >= Attempts THEN agent[a].attempt ELSE agent[a].attempt + 1
           s == [agent[a] EXCEPT !.at = x, !.attempt = y, !.res = res]
<1>1. agent[a] \in AgentState
  OBVIOUS
<1>2. x \in {"begin", "report"} /\ y \in Int
  BY <1>1 DEF AgentState
<1>3. Test!Ended(a, res) = [agent EXCEPT ![a] = s]
  BY DEF Test!Ended
<1> HIDE DEF x, y
<1>4. s \in AgentState /\ s.peer = agent[a].peer /\ s.sent = agent[a].sent
  BY <1>1, <1>2 DEF AgentState
<1> HIDE DEF s
<1> QED BY <1>3, <1>4

LEMMA TestInductive ==
  ASSUME Peers \in Seq(Peer), Attempts \in Int, Window \in Nat
  PROVE  TestInv /\ [Test!Next]_(Test!vars) => TestInv'
<1> SUFFICES ASSUME TestInv, [Test!Next]_(Test!vars)  PROVE  TestInv'
  OBVIOUS
<1>0. TestTypes
  BY DEF TestInv
<1>1. ASSUME UNCHANGED <<nows, testing, tasks, agent>>, TestTypes'  PROVE  TestInv'
  BY <1>1, OtherStep
<1>2. CASE Test!Tick
  <2>1. TestTypes'
    BY <1>0, <1>2 DEF Test!Tick, TestTypes
  <2> QED BY <1>1, <1>2, <2>1 DEF Test!Tick
<1>3. CASE Test!Fetch
  <2>1. \A i \in DOMAIN Peers : Peers[i] \in Peer /\ Peers[i] \in Test!ToSet(Peers)
    BY DEF Test!ToSet
  <2>2. todo' \in Seq(Fetched)
    <3>1. \A i \in DOMAIN Peers : [peer |-> Peers[i], check |-> checked[Peers[i]]] \in Fetched
      BY <1>0, <2>1 DEF TestTypes, Fetched
    <3>2. todo' = [i \in DOMAIN Peers |-> [peer |-> Peers[i], check |-> checked[Peers[i]]]]
      BY <1>3 DEF Test!Fetch
    <3>3. DOMAIN Peers = 1..Len(Peers) /\ Len(Peers) \in Nat
      OBVIOUS
    <3> QED BY <3>1, <3>2, <3>3
  <2>3. /\ nows' = now /\ now' = now /\ checked' = checked /\ tasks' = tasks /\ agent' = agent
        /\ testing' = { t \in testing : t.since + Window > now }
    BY <1>3 DEF Test!Fetch, Test!Pruned
  <2>4. TestTypes'
    BY <1>0, <2>2, <2>3 DEF TestTypes
  <2>5. ASSUME NEW p \in Peer, NEW s \in Int, Tracked(p, s, testing, nows)  PROVE  Tracked(p, s, testing', nows')
    <3>1. s <= nows' /\ nows <= nows' /\ nows \in Nat /\ nows' \in Nat
      BY <1>0, <2>3, <2>5 DEF TestTypes, Tracked
    <3>2. CASE [peer |-> p, since |-> s] \in testing
      <4>1. CASE s + Window > now
        <5>1. [peer |-> p, since |-> s].since = s
          OBVIOUS
        <5>2. [peer |-> p, since |-> s] \in testing'
          BY <2>3, <3>2, <4>1, <5>1
        <5> QED BY <3>1, <5>2 DEF Tracked
      <4>2. CASE ~(s + Window > now)
        <5>1. s + Window <= nows'
          BY <2>3, <3>1, <4>2
        <5> QED BY <3>1, <5>1 DEF Tracked
      <4> QED BY <4>1, <4>2
    <3>3. CASE s + Window <= nows
      BY <3>1, <3>3 DEF Tracked
    <3> QED BY <2>5, <3>2, <3>3 DEF Tracked
  <2>6. \A i \in DOMAIN tasks : tasks[i].peer \in Peer /\ tasks[i].sent \in Int
    <3>1. \A i \in DOMAIN tasks : tasks[i] \in Task
      BY <1>0 DEF TestTypes
    <3> QED BY <3>1 DEF Task
  <2>7. \A a \in Agent : InHand(agent[a]) => agent[a].peer \in Peer /\ agent[a].sent \in Int
    BY <1>0 DEF TestTypes, AgentState, InHand
  <2> QED BY <2>3, <2>4, <2>5, <2>6, <2>7 DEF TestInv, InHand, Apart
<1>4. CASE Test!Skip
  <2>1. TestTypes'
    BY <1>0, <1>4 DEF Test!Skip, TestTypes
  <2> QED BY <1>1, <1>4, <2>1 DEF Test!Skip
<1>5. CASE Test!Send
  <2> DEFINE p == Head(todo).peer
             t == [peer |-> p, sent |-> nows]
             r == [peer |-> p, since |-> nows]
  <2>1. /\ todo # <<>> /\ \A x \in testing : x.peer # p
        /\ tasks' = Append(tasks, t) /\ testing' = testing \cup {r} /\ todo' = Tail(todo)
        /\ UNCHANGED <<now, nows, checked, agent>>
    BY <1>5 DEF Test!Send, Test!UnderTest
  <2>2. p \in Peer /\ nows \in Nat
    <3>1. todo \in Seq(Fetched) /\ nows \in Nat
      BY <1>0 DEF TestTypes
    <3>2. Head(todo) \in Fetched
      BY <2>1, <3>1
    <3> QED BY <3>1, <3>2 DEF Fetched
  <2>3. t \in Task /\ t.peer = p /\ t.sent = nows /\ r \in Memo
    BY <2>2 DEF Task, Memo
  <2> HIDE DEF p, t
  <2>4. /\ tasks' \in Seq(Task) /\ Len(tasks) \in Nat
        /\ DOMAIN tasks = 1..Len(tasks) /\ DOMAIN tasks' = 1..Len(tasks) + 1
        /\ tasks'[Len(tasks) + 1] = t /\ \A i \in 1..Len(tasks) : tasks'[i] = tasks[i]
    <3>1. tasks \in Seq(Task)
      BY <1>0 DEF TestTypes
    <3>2. tasks' = Append(tasks, t) /\ t \in Task
      BY <2>1, <2>3
    <3>3. tasks' \in Seq(Task) /\ Len(tasks) \in Nat
      BY <3>1, <3>2
    <3>4. Len(tasks') = Len(tasks) + 1 /\ DOMAIN tasks = 1..Len(tasks) /\ DOMAIN tasks' = 1..Len(tasks')
      BY <3>1, <3>2, <3>3
    <3>5. tasks'[Len(tasks) + 1] = t /\ \A i \in 1..Len(tasks) : tasks'[i] = tasks[i]
      BY <3>1, <3>2
    <3> QED BY <3>3, <3>4, <3>5
  <2>5. \A i \in DOMAIN tasks' : (i \in DOMAIN tasks /\ tasks'[i] = tasks[i]) \/ (tasks'[i] = t /\ i = Len(tasks) + 1)
    BY <2>4
  <2>6. TestTypes'
    <3>1. todo' \in Seq(Fetched)
      <4>1. todo \in Seq(Fetched)
        BY <1>0 DEF TestTypes
      <4> QED BY <2>1, <4>1
    <3>2. testing' \in SUBSET Memo
      BY <1>0, <2>1, <2>3 DEF TestTypes
    <3> QED BY <1>0, <2>1, <2>4, <3>1, <3>2 DEF TestTypes
  <2>7. Tracked(p, nows, testing', nows')
    BY <2>1, <2>2 DEF Tracked
  <2>8. ASSUME NEW q, NEW s, Tracked(q, s, testing, nows)  PROVE  Tracked(q, s, testing', nows') /\ (q = p => Apart(s, nows))
    <3>1. Tracked(q, s, testing', nows')
      BY <2>1, <2>8 DEF Tracked
    <3>2. ASSUME q = p  PROVE  [peer |-> q, since |-> s] \notin testing
      BY <2>1, <3>2
    <3> QED BY <2>8, <3>1, <3>2 DEF Tracked, Apart
  <2>9. \A s : Apart(s, nows) => Apart(nows, s)
    BY DEF Apart
  <2>10. \A i \in DOMAIN tasks' : Tracked(tasks'[i].peer, tasks'[i].sent, testing', nows')
    BY <2>3, <2>5, <2>7, <2>8 DEF TestInv
  <2>11. \A a \in Agent : InHand(agent'[a]) => Tracked(agent'[a].peer, agent'[a].sent, testing', nows')
    BY <2>1, <2>8 DEF TestInv, InHand
  <2>12. ASSUME NEW i \in DOMAIN tasks', NEW j \in DOMAIN tasks', i # j, tasks'[i].peer = tasks'[j].peer
         PROVE  Apart(tasks'[i].sent, tasks'[j].sent)
    <3>1. CASE tasks'[i] = t /\ j \in DOMAIN tasks /\ tasks'[j] = tasks[j]
      BY <2>3, <2>8, <2>9, <2>12, <3>1 DEF TestInv
    <3>2. CASE tasks'[j] = t /\ i \in DOMAIN tasks /\ tasks'[i] = tasks[i]
      BY <2>3, <2>8, <2>12, <3>2 DEF TestInv
    <3>3. CASE i \in DOMAIN tasks /\ tasks'[i] = tasks[i] /\ j \in DOMAIN tasks /\ tasks'[j] = tasks[j]
      BY <2>12, <3>3 DEF TestInv
    <3> QED BY <2>5, <2>12, <3>1, <3>2, <3>3
  <2>13. ASSUME NEW i \in DOMAIN tasks', NEW a \in Agent, InHand(agent[a]), tasks'[i].peer = agent[a].peer
         PROVE  Apart(tasks'[i].sent, agent[a].sent)
    <3>1. CASE tasks'[i] = t
      BY <2>3, <2>8, <2>9, <2>13, <3>1 DEF TestInv
    <3>2. CASE i \in DOMAIN tasks /\ tasks'[i] = tasks[i]
      BY <2>13, <3>2 DEF TestInv
    <3> QED BY <2>5, <3>1, <3>2
  <2> QED BY <2>1, <2>6, <2>10, <2>11, <2>12, <2>13 DEF TestInv, InHand, Apart
<1>6. CASE Test!Sent \/ Test!Collect \/ Test!Collected
  <2>1. UNCHANGED <<now, checked, todo, nows, testing, tasks, agent>>
    BY <1>6 DEF Test!Sent, Test!Collect, Test!Collected
  <2>2. TestTypes'
    BY <1>0, <2>1 DEF TestTypes
  <2> QED BY <1>1, <2>1, <2>2
<1>7. CASE Test!Post
  <2>1. UNCHANGED <<now, todo, nows, testing, tasks, agent>>
    BY <1>7 DEF Test!Post
  <2>2. checked' \in [Test!ToSet(Peers) -> Int]
    <3>1. checked \in [Test!ToSet(Peers) -> Int] /\ now \in Int
      BY <1>0 DEF TestTypes
    <3>2. CASE UNCHANGED checked
      BY <3>1, <3>2
    <3>3. CASE checked' = [q \in DOMAIN checked |-> IF \E n \in nodes : n.peer = q THEN now ELSE checked[q]]
      BY <3>1, <3>3
    <3> QED BY <1>7, <3>2, <3>3 DEF Test!Post
  <2>3. TestTypes'
    BY <1>0, <2>1, <2>2 DEF TestTypes
  <2> QED BY <1>1, <2>1, <2>3
<1>8. ASSUME NEW a \in Agent, Test!Take(a)  PROVE  TestInv'
  <2> DEFINE h == Head(tasks)
  <2>1. /\ tasks # <<>> /\ tasks' = Tail(tasks) /\ UNCHANGED <<now, checked, todo, nows, testing>>
        /\ agent' = [agent EXCEPT ![a] = [@ EXCEPT !.at = "begin", !.peer = h.peer, !.sent = h.sent,
                                                   !.attempt = 1]]
    BY <1>8 DEF Test!Take
  <2>2. /\ Len(tasks) \in Nat /\ DOMAIN tasks = 1..Len(tasks) /\ h = tasks[1] /\ 1 \in DOMAIN tasks
        /\ tasks' \in Seq(Task) /\ DOMAIN tasks' = 1..Len(tasks) - 1
        /\ \A i \in 1..Len(tasks) - 1 : tasks'[i] = tasks[i + 1]
        /\ h \in Task
    <3>1. tasks \in Seq(Task)
      BY <1>0 DEF TestTypes
    <3>2. tasks # <<>> /\ tasks' = Tail(tasks)
      BY <2>1
    <3>3. /\ Len(tasks) \in Nat /\ Len(tasks) > 0 /\ DOMAIN tasks = 1..Len(tasks)
          /\ h = tasks[1]
      BY <3>1, <3>2
    <3>4. tasks' \in Seq(Task) /\ Len(tasks') = Len(tasks) - 1 /\ DOMAIN tasks' = 1..Len(tasks')
      BY <3>1, <3>2
    <3>5. \A i \in 1..Len(tasks) - 1 : tasks'[i] = tasks[i + 1]
      BY <3>1, <3>2
    <3>6. h \in Task
      BY <3>1, <3>3
    <3> HIDE DEF h
    <3> QED BY <3>3, <3>4, <3>5, <3>6
  <2> HIDE DEF h
  <2>3. /\ agent' \in [Agent -> AgentState]
        /\ agent'[a].peer = h.peer /\ agent'[a].sent = h.sent
        /\ \A b \in Agent \ {a} : agent'[b] = agent[b]
    <3> DEFINE w(x, q, n, y) == [agent[a] EXCEPT !.at = x, !.peer = q, !.sent = n, !.attempt = y]
               s == w("begin", h.peer, h.sent, 1)
    <3>1. agent \in [Agent -> AgentState] /\ agent[a] \in AgentState
      BY <1>0 DEF TestTypes
    <3>2. h.peer \in Peer /\ h.sent \in Nat
      BY <2>2 DEF Task
    <3>3. s \in AgentState /\ s.peer = h.peer /\ s.sent = h.sent
      <4>1. \A x \in {"begin", "report"}, q \in Peer, n, y \in Int :
              w(x, q, n, y) \in AgentState /\ w(x, q, n, y).peer = q /\ w(x, q, n, y).sent = n
        BY ZenonT(30), <3>1 DEF AgentState
      <4>2. "begin" \in {"begin", "report"} /\ h.peer \in Peer /\ h.sent \in Int /\ 1 \in Int
        BY <3>2
      <4> HIDE DEF w
      <4> QED BY <4>1, <4>2
    <3>4. agent' = [agent EXCEPT ![a] = s]
      BY <2>1
    <3> HIDE DEF s
    <3> QED BY <3>1, <3>3, <3>4
  <2>4. TestTypes'
    BY <1>0, <2>1, <2>2, <2>3 DEF TestTypes
  <2>5. \A i \in DOMAIN tasks' : i + 1 \in DOMAIN tasks /\ i + 1 # 1 /\ tasks'[i] = tasks[i + 1] /\ i \in Nat
    BY <2>2
  <2>6. \A i, j \in DOMAIN tasks' : i # j => i + 1 # j + 1
    BY <2>5
  <2>7. \A q, s : Tracked(q, s, testing, nows) => Tracked(q, s, testing', nows')
    BY <2>1 DEF Tracked
  <2>8. \A i \in DOMAIN tasks' : Tracked(tasks'[i].peer, tasks'[i].sent, testing', nows')
    BY <2>5, <2>7 DEF TestInv
  <2>9. \A b \in Agent : InHand(agent'[b]) => Tracked(agent'[b].peer, agent'[b].sent, testing', nows')
    BY <2>2, <2>3, <2>7 DEF TestInv, InHand
  <2>10. \A i, j \in DOMAIN tasks' : i # j /\ tasks'[i].peer = tasks'[j].peer =>
           Apart(tasks'[i].sent, tasks'[j].sent)
    BY <2>5, <2>6 DEF TestInv
  <2>11. ASSUME NEW i \in DOMAIN tasks', NEW b \in Agent, InHand(agent'[b]), tasks'[i].peer = agent'[b].peer
         PROVE  Apart(tasks'[i].sent, agent'[b].sent)
    <3>1. CASE b = a
      BY <2>2, <2>3, <2>5, <2>11, <3>1 DEF TestInv
    <3>2. CASE b # a
      BY <2>3, <2>5, <2>11, <3>2 DEF TestInv, InHand
    <3> QED BY <3>1, <3>2
  <2>12. ASSUME NEW b \in Agent, NEW c \in Agent, InHand(agent'[b]), b # c, agent'[b].peer = agent'[c].peer
         PROVE  Apart(agent'[b].sent, agent'[c].sent)
    <3>0. \A s, w : Apart(s, w) => Apart(w, s)
      BY DEF Apart
    <3>1. CASE b = a
      BY <2>2, <2>3, <2>12, <3>1 DEF TestInv, InHand
    <3>2. CASE c = a
      BY <2>2, <2>3, <2>12, <3>0, <3>2 DEF TestInv, InHand
    <3>3. CASE b # a /\ c # a
      BY <2>3, <2>12, <3>3 DEF TestInv, InHand
    <3> QED BY <3>1, <3>2, <3>3
  <2> QED BY <2>4, <2>8, <2>9, <2>10, <2>11, <2>12 DEF TestInv, Apart
<1>9. ASSUME UNCHANGED <<now, checked, todo, nows, testing, tasks>>, agent' \in [Agent -> AgentState],
             \A b \in Agent : agent'[b].peer = agent[b].peer /\ agent'[b].sent = agent[b].sent
      PROVE  TestInv'
  <2>1. TestTypes'
    BY <1>0, <1>9 DEF TestTypes
  <2> QED BY <1>9, <2>1, OtherStep
<1>10. ASSUME NEW a \in Agent, Test!Begin(a)  PROVE  TestInv'
  <2>1. CASE agent' = Test!Ended(a, "connected")
    BY <1>0, <1>9, <1>10, <2>1, EndedKeeps DEF Test!Begin, TestTypes
  <2>2. CASE agent' = [agent EXCEPT ![a].at = "testing", ![a].since = now]
    <3>1. /\ agent' \in [Agent -> AgentState]
          /\ \A b \in Agent : agent'[b].peer = agent[b].peer /\ agent'[b].sent = agent[b].sent
      <4> DEFINE s == [agent[a] EXCEPT !.at = "testing", !.since = now]
      <4>1. agent \in [Agent -> AgentState] /\ agent[a] \in AgentState /\ now \in Int
        BY <1>0 DEF TestTypes
      <4>2. s \in AgentState /\ s.peer = agent[a].peer /\ s.sent = agent[a].sent
        BY <4>1 DEF AgentState
      <4>3. agent' = [agent EXCEPT ![a] = s]
        BY <2>2
      <4> HIDE DEF s
      <4> QED BY <4>1, <4>2, <4>3
    <3> QED BY <1>9, <1>10, <3>1 DEF Test!Begin
  <2> QED BY <1>10, <2>1, <2>2 DEF Test!Begin
<1>11. ASSUME NEW a \in Agent, Test!Finish(a)  PROVE  TestInv'
  BY <1>0, <1>9, <1>11, EndedKeeps DEF Test!Finish, TestTypes
<1>12. ASSUME NEW a \in Agent, Test!TimeOut(a)  PROVE  TestInv'
  BY <1>0, <1>9, <1>12, EndedKeeps DEF Test!TimeOut, TestTypes
<1>13. ASSUME NEW a \in Agent, Test!Report(a)  PROVE  TestInv'
  <2>1. /\ UNCHANGED <<now, checked, todo, nows, testing, tasks>>
        /\ agent' = [agent EXCEPT ![a] = [Test!Idle EXCEPT !.res = agent[a].res]]
    BY <1>13 DEF Test!Report
  <2>2. [Test!Idle EXCEPT !.res = agent[a].res] \in AgentState /\ [Test!Idle EXCEPT !.res = agent[a].res].peer = Test!Nobody
    BY <1>0 DEF Test!Idle, Test!Never, AgentState, TestTypes
  <2>3. /\ agent' \in [Agent -> AgentState] /\ agent'[a].peer = Test!Nobody
        /\ \A b \in Agent \ {a} : agent'[b] = agent[b]
    BY <1>0, <2>1, <2>2 DEF TestTypes
  <2>4. TestTypes'
    BY <1>0, <2>1, <2>3 DEF TestTypes
  <2> QED BY <2>1, <2>3, <2>4 DEF TestInv, Tracked, Apart, InHand
<1>14. CASE UNCHANGED Test!vars
  <2>1. TestTypes'
    BY <1>0, <1>14 DEF Test!vars, TestTypes
  <2> QED BY <1>1, <1>14, <2>1 DEF Test!vars
<1> QED
  BY <1>2, <1>3, <1>4, <1>5, <1>6, <1>7, <1>8, <1>10, <1>11, <1>12, <1>13, <1>14 DEF Test!Next

LEMMA TestInit == Test!Init => TestInv
<1> SUFFICES ASSUME Test!Init  PROVE  TestInv
  OBVIOUS
<1>1. Test!Idle \in AgentState /\ Test!Idle.peer = Test!Nobody
  BY DEF Test!Idle, Test!Never, AgentState
<1>2. TestTypes
  BY <1>1 DEF Test!Init, TestTypes, Test!Never
<1>3. DOMAIN tasks = {} /\ \A a \in Agent : ~InHand(agent[a])
  BY <1>1 DEF Test!Init, InHand
<1> QED BY <1>2, <1>3 DEF TestInv

\* Two agents have the same peer in hand only when it was given to them a window apart, however
\* long tests take and however full the channels are.  (main.rs: main_loop_cycle, TestAgent::run)
THEOREM GivenApart ==
  ASSUME Peers \in Seq(Peer), Attempts \in Int, Window \in Nat
  PROVE  Test!Spec => []Test!SentApart
<1>1. Test!Init => TestInv
  BY TestInit
<1>2. TestInv /\ [Test!Next]_(Test!vars) => TestInv'
  BY TestInductive
<1>3. TestInv => Test!SentApart
  BY DEF TestInv, Test!SentApart, InHand, Apart
<1> QED BY <1>1, <1>2, <1>3, PTL DEF Test!Spec
-----------------------------------------------------------------------------
(* The connections of the node.                                              *)

ConnTypes == conn \in [Test!ToSet(Peers) -> Agent \cup {Test!Nobody}]

ConnInv == ConnTypes /\ Test!ConnectionsUsed

\* What Finish and Begin leave: no connection of the agent, and those of the others.
LEMMA FreedConns ==
  ASSUME ConnTypes, NEW a \in Agent
  PROVE  /\ Test!Freed(a) \in [Test!ToSet(Peers) -> Agent \cup {Test!Nobody}]
         /\ \A p \in Test!ToSet(Peers) : Test!Freed(a)[p] # Test!Nobody => Test!Freed(a)[p] = conn[p] /\ conn[p] # a
BY DEF ConnTypes, Test!Freed

\* An agent that does something has its connections freed, or is at the test it made one
\* for, or its last test was given up; the others go on as before.
LEMMA ConnStep ==
  ASSUME ConnInv, NEW a \in Agent, conn' \in [Test!ToSet(Peers) -> Agent \cup {Test!Nobody}],
         \A b \in Agent : b # a => agent'[b] = agent[b],
         \A p \in Test!ToSet(Peers) : conn'[p] # Test!Nobody /\ conn'[p] # a => conn'[p] = conn[p],
         \A p \in Test!ToSet(Peers) : conn'[p] = a /\ a # Test!Nobody =>
           (agent'[a].at = "testing" /\ agent'[a].peer = p) \/ agent'[a].res = "timeout"
  PROVE  ConnInv'
<1>1. DOMAIN conn' = Test!ToSet(Peers) /\ DOMAIN conn = Test!ToSet(Peers)
  BY DEF ConnInv, ConnTypes
<1>2. ASSUME NEW p \in Test!ToSet(Peers), conn'[p] # Test!Nobody
      PROVE  (agent'[conn'[p]].at = "testing" /\ agent'[conn'[p]].peer = p) \/ agent'[conn'[p]].res = "timeout"
  <2>1. CASE conn'[p] = a
    BY <1>2, <2>1
  <2>2. CASE conn'[p] # a
    <3>1. conn'[p] = conn[p] /\ conn'[p] \in Agent
      BY <1>2, <2>2
    <3>2. agent'[conn'[p]] = agent[conn[p]]
      BY <2>2, <3>1
    <3>3. (agent[conn[p]].at = "testing" /\ agent[conn[p]].peer = p) \/ agent[conn[p]].res = "timeout"
      BY <1>1, <1>2, <3>1 DEF ConnInv, Test!ConnectionsUsed
    <3> QED BY <3>2, <3>3
  <2> QED BY <2>1, <2>2
<1> QED BY <1>1, <1>2 DEF ConnInv, ConnTypes, Test!ConnectionsUsed

\* The result of an attempt, in the agent's state.
LEMMA EndedResult ==
  ASSUME agent \in [Agent -> AgentState], NEW a \in Agent, NEW res
  PROVE  Test!Ended(a, res)[a].res = res /\ \A b \in Agent : b # a => Test!Ended(a, res)[b] = agent[b]
<1> DEFINE x == IF res = "ok" \/ agent[a].attempt >= Attempts THEN "report" ELSE "begin"
           y == IF res = "ok" \/ agent[a].attempt >= Attempts THEN agent[a].attempt ELSE agent[a].attempt + 1
           s == [agent[a] EXCEPT !.at = x, !.attempt = y, !.res = res]
<1>1. agent[a] \in AgentState
  OBVIOUS
<1>2. Test!Ended(a, res) = [agent EXCEPT ![a] = s]
  BY DEF Test!Ended
<1> HIDE DEF x, y
<1>3. s.res = res
  BY <1>1 DEF AgentState
<1> HIDE DEF s
<1> QED BY <1>2, <1>3

LEMMA ConnInductive ==
  ASSUME TestTypes, ConnInv, [Test!Next]_(Test!vars)
  PROVE  ConnInv'
<1>0. agent \in [Agent -> AgentState] /\ ConnTypes
  BY DEF TestTypes, ConnInv
<1>1. ASSUME UNCHANGED <<agent, conn>>  PROVE  ConnInv'
  BY <1>1 DEF ConnInv, ConnTypes, Test!ConnectionsUsed
<1>2. CASE Test!Tick \/ Test!Fetch \/ Test!Skip \/ Test!Send \/ Test!Sent \/ Test!Collect \/ Test!Collected \/ Test!Post
  BY <1>1, <1>2 DEF Test!Tick, Test!Fetch, Test!Skip, Test!Send, Test!Sent, Test!Collect, Test!Collected, Test!Post
<1>3. ASSUME NEW a \in Agent, Test!Take(a)  PROVE  ConnInv'
  <2>1. /\ agent[a].at = "idle" /\ conn' = conn
        /\ agent' = [agent EXCEPT ![a] = [@ EXCEPT !.at = "begin", !.peer = Head(tasks).peer,
                                                   !.sent = Head(tasks).sent, !.attempt = 1]]
    BY <1>3 DEF Test!Take
  <2>2. agent'[a].res = agent[a].res /\ \A b \in Agent : b # a => agent'[b] = agent[b]
    BY <1>0, <2>1 DEF AgentState
  <2>3. \A p \in Test!ToSet(Peers) : conn[p] = a /\ a # Test!Nobody => agent[a].res = "timeout"
    BY <1>0, <2>1 DEF ConnInv, ConnTypes, Test!ConnectionsUsed
  <2> QED BY <1>0, <2>1, <2>2, <2>3, ConnStep DEF ConnTypes
<1>4. ASSUME NEW a \in Agent, Test!Begin(a)  PROVE  ConnInv'
  <2>1. CASE conn' = Test!Freed(a) /\ agent' = Test!Ended(a, "connected")
    BY <1>0, <2>1, FreedConns, EndedResult, ConnStep
  <2>2. CASE /\ conn' = [Test!Freed(a) EXCEPT ![agent[a].peer] = a]
             /\ agent' = [agent EXCEPT ![a].at = "testing", ![a].since = now]
    <3> DEFINE s == [agent[a] EXCEPT !.at = "testing", !.since = now]
               q == agent[a].peer
    <3>1. s.at = "testing" /\ s.peer = q
      BY <1>0 DEF AgentState
    <3>2. agent' = [agent EXCEPT ![a] = s]
      BY <2>2
    <3> HIDE DEF s, q
    <3>3. agent'[a].at = "testing" /\ agent'[a].peer = q /\ \A b \in Agent : b # a => agent'[b] = agent[b]
      BY <1>0, <3>1, <3>2
    <3>4. conn' = [Test!Freed(a) EXCEPT ![q] = a]
      BY <2>2 DEF q
    <3>5. /\ conn' \in [Test!ToSet(Peers) -> Agent \cup {Test!Nobody}]
          /\ \A p \in Test!ToSet(Peers) : conn'[p] = a /\ p # q => a = Test!Nobody
          /\ \A p \in Test!ToSet(Peers) : conn'[p] # Test!Nobody /\ conn'[p] # a => conn'[p] = conn[p]
      BY <1>0, <3>4, FreedConns
    <3> QED BY <3>3, <3>5, ConnStep
  <2> QED BY <1>4, <2>1, <2>2 DEF Test!Begin
<1>5. ASSUME NEW a \in Agent, Test!Finish(a)  PROVE  ConnInv'
  <2>1. PICK res \in {"ok", "bad"} : agent' = Test!Ended(a, res)
    BY <1>5 DEF Test!Finish
  <2> QED BY <1>0, <1>5, <2>1, FreedConns, EndedResult, ConnStep DEF Test!Finish
<1>6. ASSUME NEW a \in Agent, Test!TimeOut(a)  PROVE  ConnInv'
  BY <1>0, <1>6, EndedResult, ConnStep DEF Test!TimeOut, ConnTypes
<1>7. ASSUME NEW a \in Agent, Test!Report(a)  PROVE  ConnInv'
  <2>1. /\ agent[a].at = "report" /\ conn' = conn
        /\ agent' = [agent EXCEPT ![a] = [Test!Idle EXCEPT !.res = agent[a].res]]
    BY <1>7 DEF Test!Report
  <2>2. agent'[a].res = agent[a].res /\ \A b \in Agent : b # a => agent'[b] = agent[b]
    BY <1>0, <2>1 DEF Test!Idle
  <2>3. \A p \in Test!ToSet(Peers) : conn[p] = a /\ a # Test!Nobody => agent[a].res = "timeout"
    BY <1>0, <2>1 DEF ConnInv, ConnTypes, Test!ConnectionsUsed
  <2> QED BY <1>0, <2>1, <2>2, <2>3, ConnStep DEF ConnTypes
<1>8. CASE UNCHANGED Test!vars
  BY <1>1, <1>8 DEF Test!vars
<1> QED BY <1>2, <1>3, <1>4, <1>5, <1>6, <1>7, <1>8 DEF Test!Next

\* No connection is left on the node but that of a test that goes on or of an agent whose last
\* test was given up, in whatever order agents take, fail, retry and give up.
\* (main.rs: TestAgent::run; cjdns.rs: remove_conns)
THEOREM ConnectionsFreed ==
  ASSUME Peers \in Seq(Peer), Attempts \in Int, Window \in Nat
  PROVE  Test!Spec => []Test!ConnectionsUsed
<1>1. Test!Init => TestInv /\ ConnInv
  BY TestInit DEF Test!Init, ConnInv, ConnTypes, Test!ConnectionsUsed
<1>2. TestInv /\ ConnInv /\ [Test!Next]_(Test!vars) => (TestInv /\ ConnInv)'
  BY TestInductive, ConnInductive DEF TestInv
<1>3. ConnInv => Test!ConnectionsUsed
  BY DEF ConnInv
<1> QED BY <1>1, <1>2, <1>3, PTL DEF Test!Spec

-----------------------------------------------------------------------------
(* The messages the packets to a node are written into, back to front.     *)

CONSTANTS ChunkSize, Writes, Counts, MaxLen
VARIABLES chunks, spare, result

Buffer == INSTANCE MessageBuffer

\* f gathers the sequences of s, one after the other.
Gathers(f, s, B) ==
  /\ f \in [0..Len(s) -> Seq(B)] /\ f[0] = <<>>
  /\ \A i \in 1..Len(s) : f[i] = f[i - 1] \o s[i]

\* There is one that does.
LEMMA GathersExists ==
  ASSUME NEW B, NEW s \in Seq(Seq(B))
  PROVE  \E f : Gathers(f, s, B)
<1> DEFINE F == [p \in Nat \X Seq(B) |-> p[2] \o (IF p[1] \in 1..Len(s) THEN s[p[1]] ELSE <<>>)]
<1>1. Len(s) \in Nat /\ <<>> \in Seq(B) /\ \A i \in 1..Len(s) : s[i] \in Seq(B)
  BY EmptySeq, ElementOfSeq
<1>2. F \in [Nat \X Seq(B) -> Seq(B)]
  <2>1. ASSUME NEW n \in Nat, NEW q \in Seq(B)
        PROVE  q \o (IF n \in 1..Len(s) THEN s[n] ELSE <<>>) \in Seq(B)
    BY <1>1, ConcatProperties, EmptySeq
  <2> QED BY <2>1
<1>3. ASSUME NEW i \in 1..Len(s), NEW q \in Seq(B)  PROVE F[<<i, q>>] = q \o s[i]
  <2>1. <<i, q>> \in Nat \X Seq(B)
    BY <1>1
  <2> QED BY <2>1
<1> HIDE DEF F
<1>4. PICK f : Iteration(f, Seq(B), Len(s), <<>>, F)
  BY <1>1, <1>2, Iterates
<1>5. ASSUME NEW i \in 1..Len(s)  PROVE f[i] = f[i - 1] \o s[i]
  <2>1. i - 1 \in 0..Len(s)
    BY <1>1
  <2>2. f[i - 1] \in Seq(B)
    BY <1>4, <2>1 DEF Iteration
  <2> QED BY <1>3, <1>4, <2>2 DEF Iteration
<1>6. Gathers(f, s, B)
  BY <1>4, <1>5 DEF Iteration, Gathers
<1> QED BY <1>6

\* What it gathers is what FlattenSeq makes of s.
LEMMA GathersFlatten ==
  ASSUME NEW B, NEW s \in Seq(Seq(B)), NEW f, Gathers(f, s, B)
  PROVE  Buffer!FlattenSeq(s) = f[Len(s)]
<1>1. CASE s = <<>>
  BY <1>1 DEF Gathers, Buffer!FlattenSeq
<1>2. CASE s # <<>>
  <2> DEFINE Eq(g) == g = [i \in 1..Len(s) |-> IF i = 1 THEN s[i] ELSE g[i - 1] \o s[i]]
             h == [i \in 1..Len(s) |-> f[i]]
  <2>1. Len(s) \in Nat /\ 1 <= Len(s) /\ \A i \in 1..Len(s) : s[i] \in Seq(B)
    BY <1>2, EmptySeq, ElementOfSeq
  <2>2. f[1] = s[1]
    <3>1. 1 \in 1..Len(s) /\ 1 - 1 = 0 /\ s[1] \in Seq(B)
      BY <2>1
    <3>2. f[1] = f[1 - 1] \o s[1]
      BY <3>1 DEF Gathers
    <3>3. f[1] = <<>> \o s[1]
      BY <3>1, <3>2 DEF Gathers
    <3> QED BY <3>1, <3>3, ConcatEmptySeq
  <2>3. Eq(h)
    <3>1. ASSUME NEW i \in 1..Len(s), i # 1  PROVE h[i] = h[i - 1] \o s[i]
      <4>1. i - 1 \in 1..Len(s)
        BY <2>1, <3>1
      <4>2. h[i - 1] = f[i - 1] /\ h[i] = f[i]
        BY <4>1
      <4>3. f[i] = f[i - 1] \o s[i]
        BY DEF Gathers
      <4> QED BY <4>2, <4>3
    <3>2. \A i \in 1..Len(s) : h[i] = IF i = 1 THEN s[i] ELSE h[i - 1] \o s[i]
      BY <3>1, <2>2
    <3> QED BY <3>2
  <2>4. Buffer!FlattenSeq(s) = (CHOOSE g : Eq(g))[Len(s)]
    BY <2>1 DEF Buffer!FlattenSeq
  <2>5. Eq(CHOOSE g : Eq(g))
    <3> HIDE DEF Eq
    <3> QED BY <2>3
  <2> DEFINE g == CHOOSE g : Eq(g)
  <2> HIDE DEF g
  <2>6. g = [i \in 1..Len(s) |-> IF i = 1 THEN s[i] ELSE g[i - 1] \o s[i]]
    BY <2>5 DEF g
  <2>7. \A i \in 1..Len(s) : g[i] = IF i = 1 THEN s[i] ELSE g[i - 1] \o s[i]
    BY <2>6
  <2> DEFINE T == { n \in Nat : n + 1 \in 1..Len(s) => g[n + 1] = f[n + 1] }
  <2>8. 0 \in T
    BY <2>1, <2>2, <2>7
  <2>9. ASSUME NEW n \in Nat, n \in T  PROVE n + 1 \in T
    <3>1. SUFFICES ASSUME (n + 1) + 1 \in 1..Len(s)  PROVE g[(n + 1) + 1] = f[(n + 1) + 1]
      OBVIOUS
    <3>2. (n + 1) + 1 # 1 /\ n + 1 \in 1..Len(s) /\ ((n + 1) + 1) - 1 = n + 1
      BY <2>1, <3>1
    <3>3. g[n + 1] = f[n + 1]
      BY <2>9, <3>2
    <3>4. g[(n + 1) + 1] = g[n + 1] \o s[(n + 1) + 1]
      BY <2>7, <3>1, <3>2
    <3>5. f[(n + 1) + 1] = f[n + 1] \o s[(n + 1) + 1]
      BY <3>1, <3>2 DEF Gathers
    <3> QED BY <3>3, <3>4, <3>5
  <2> HIDE DEF T
  <2>10. \A n \in Nat : n \in T
    BY <2>8, <2>9, Induction
  <2>11. Len(s) - 1 \in T /\ (Len(s) - 1) + 1 = Len(s) /\ Len(s) \in 1..Len(s)
    BY <2>1, <2>10
  <2>12. g[Len(s)] = f[Len(s)]
    BY <2>11 DEF T
  <2> QED BY <2>4, <2>12 DEF g
<1> QED BY <1>1, <1>2

\* FlattenSeq of a sequence of sequences over B is one over B, and what is put first comes first.
LEMMA FlattenCons ==
  ASSUME NEW B, NEW s \in Seq(Seq(B)), NEW x \in Seq(B)
  PROVE  /\ Buffer!FlattenSeq(s) \in Seq(B)
         /\ Buffer!FlattenSeq(<<x>> \o s) = x \o Buffer!FlattenSeq(s)
<1>1. PICK f : Gathers(f, s, B)
  BY GathersExists
<1>2. Len(s) \in Nat /\ Buffer!FlattenSeq(s) = f[Len(s)] /\ Len(s) \in 0..Len(s)
  BY <1>1, GathersFlatten, EmptySeq
<1>3. Buffer!FlattenSeq(s) \in Seq(B)
  BY <1>1, <1>2 DEF Gathers
<1> DEFINE t == <<x>> \o s
           g == [i \in 0..Len(t) |-> IF i = 0 THEN <<>> ELSE x \o f[i - 1]]
<1>4. <<x>> \in Seq(Seq(B)) /\ Len(<<x>>) = 1 /\ <<x>>[1] = x
  OBVIOUS
<1>5. t \in Seq(Seq(B)) /\ Len(t) = 1 + Len(s)
      /\ \A i \in 1..(1 + Len(s)) : t[i] = IF i <= 1 THEN <<x>>[i] ELSE s[i - 1]
  BY <1>4, ConcatProperties
<1> HIDE DEF t
<1>6. Gathers(g, t, B)
  <2>1. \A i \in 0..Len(t) : i # 0 => i - 1 \in 0..Len(s)
    BY <1>2, <1>5
  <2>2. \A i \in 0..Len(s) : f[i] \in Seq(B) /\ x \o f[i] \in Seq(B)
    BY <1>1, ConcatProperties DEF Gathers
  <2>3. g \in [0..Len(t) -> Seq(B)]
    BY <2>1, <2>2, EmptySeq
  <2>4. g[0] = <<>>
    BY <1>2, <1>5
  <2>5. ASSUME NEW i \in 1..Len(t)  PROVE g[i] = g[i - 1] \o t[i]
    <3>1. i \in 0..Len(t) /\ i - 1 \in 0..Len(t) /\ i # 0 /\ i - 1 \in 0..Len(s)
      BY <1>2, <1>5
    <3>2. g[i] = x \o f[i - 1]
      BY <3>1
    <3>3. CASE i = 1
      <4>1. t[i] = x /\ f[i - 1] = <<>> /\ g[i - 1] = <<>>
        BY <1>1, <1>2, <1>4, <1>5, <2>4, <3>3 DEF Gathers
      <4>2. g[i] = x \o <<>>
        BY <3>2, <4>1
      <4>3. x \o <<>> = x /\ <<>> \o x = x
        BY ConcatEmptySeq
      <4> QED BY <4>1, <4>2, <4>3
    <3>4. CASE i # 1
      <4>1. i - 1 \in 1..Len(s) /\ t[i] = s[i - 1] /\ (i - 1) - 1 \in 0..Len(s) /\ i - 1 # 0
        BY <1>2, <1>5, <3>1, <3>4
      <4>2. f[i - 1] = f[(i - 1) - 1] \o s[i - 1]
        BY <1>1, <4>1 DEF Gathers
      <4>3. g[i - 1] = x \o f[(i - 1) - 1]
        BY <3>1, <4>1
      <4>4. f[(i - 1) - 1] \in Seq(B) /\ s[i - 1] \in Seq(B)
        BY <2>2, <4>1, ElementOfSeq
      <4>5. (x \o f[(i - 1) - 1]) \o s[i - 1] = x \o (f[(i - 1) - 1] \o s[i - 1])
        <5>1. \A y, z \in Seq(B) : (x \o y) \o z = x \o (y \o z)
          BY ConcatAssociative
        <5> QED BY <4>4, <5>1
      <4> QED BY <3>2, <4>1, <4>2, <4>3, <4>5
    <3> QED BY <3>3, <3>4
  <2> HIDE DEF g
  <2> QED BY <2>3, <2>4, <2>5 DEF Gathers
<1>7. Buffer!FlattenSeq(t) = g[Len(t)]
  <2> HIDE DEF g
  <2> QED BY <1>5, <1>6, GathersFlatten
<1>8. g[Len(t)] = x \o f[Len(s)]
  <2>1. Len(t) \in 0..Len(t) /\ Len(t) # 0 /\ Len(t) - 1 = Len(s)
    BY <1>2, <1>5
  <2> QED BY <2>1
<1>9. Buffer!FlattenSeq(t) = x \o Buffer!FlattenSeq(s)
  <2> HIDE DEF g
  <2> QED BY <1>2, <1>7, <1>8
<1> QED BY <1>3, <1>9 DEF t

\* The bytes of the chunks of a message.
BytesOf(c) == Buffer!FlattenSeq(Buffer!Reverse(c))

\* A chunk pushed is the front of the bytes.
LEMMA BytesAppend ==
  ASSUME NEW B, NEW c \in Seq(Seq(B)), NEW x \in Seq(B)
  PROVE  /\ BytesOf(c) \in Seq(B) /\ BytesOf(<<>>) = <<>>
         /\ BytesOf(Append(c, x)) = x \o BytesOf(c)
<1>1. Len(c) \in Nat /\ \A i \in 1..Len(c) : c[i] \in Seq(B)
  BY EmptySeq, ElementOfSeq
<1>2. Buffer!Reverse(c) \in Seq(Seq(B)) /\ Len(Buffer!Reverse(c)) = Len(c)
  <2>1. \A i \in 1..Len(c) : (Len(c) - i) + 1 \in 1..Len(c)
    BY <1>1
  <2>2. \A i \in 1..Len(c) : c[(Len(c) - i) + 1] \in Seq(B)
    BY <1>1, <2>1
  <2> QED BY <1>1, <2>2 DEF Buffer!Reverse
<1>3. BytesOf(<<>>) = <<>>
  <2>1. Buffer!Reverse(<<>>) = <<>>
    BY DEF Buffer!Reverse
  <2> QED BY <2>1 DEF BytesOf, Buffer!FlattenSeq
<1>4. Buffer!Reverse(Append(c, x)) = <<x>> \o Buffer!Reverse(c)
  <2> DEFINE d == Append(c, x)
             r == <<x>> \o Buffer!Reverse(c)
  <2>1. d \in Seq(Seq(B)) /\ Len(d) = Len(c) + 1 /\ (\A i \in 1..Len(c) : d[i] = c[i]) /\ d[Len(c) + 1] = x
    BY AppendProperties
  <2>2. <<x>> \in Seq(Seq(B)) /\ Len(<<x>>) = 1 /\ <<x>>[1] = x
    OBVIOUS
  <2>3. r \in Seq(Seq(B)) /\ Len(r) = 1 + Len(c)
        /\ \A i \in 1..(1 + Len(c)) : r[i] = IF i <= 1 THEN <<x>>[i] ELSE Buffer!Reverse(c)[i - 1]
    BY <1>2, <2>2, ConcatProperties
  <2> HIDE DEF d, r
  <2>4. Buffer!Reverse(d) \in Seq(Seq(B)) /\ Len(Buffer!Reverse(d)) = Len(d)
        /\ \A i \in 1..Len(d) : Buffer!Reverse(d)[i] = d[(Len(d) - i) + 1]
    <3>1. \A i \in 1..Len(d) : (Len(d) - i) + 1 \in 1..Len(d)
      BY <1>1, <2>1
    <3>2. \A i \in 1..Len(d) : d[(Len(d) - i) + 1] \in Seq(B)
      BY <2>1, <3>1, ElementOfSeq
    <3>3. Len(d) \in Nat
      BY <1>1, <2>1
    <3> QED BY <3>2, <3>3 DEF Buffer!Reverse
  <2>5. ASSUME NEW i \in 1..Len(d)  PROVE Buffer!Reverse(d)[i] = r[i]
    <3>1. CASE i = 1
      <4>1. (Len(d) - i) + 1 = Len(c) + 1 /\ i <= 1 /\ i \in 1..(1 + Len(c))
        BY <1>1, <2>1, <3>1
      <4> QED BY <2>1, <2>2, <2>3, <2>4, <3>1, <4>1
    <3>2. CASE i # 1
      <4>1. (Len(d) - i) + 1 = (Len(c) - (i - 1)) + 1 /\ ~(i <= 1) /\ i \in 1..(1 + Len(c))
            /\ i - 1 \in 1..Len(c) /\ (Len(c) - (i - 1)) + 1 \in 1..Len(c)
        BY <1>1, <2>1, <3>2
      <4>2. Buffer!Reverse(c)[i - 1] = c[(Len(c) - (i - 1)) + 1]
        BY <4>1 DEF Buffer!Reverse
      <4> QED BY <2>1, <2>3, <2>4, <4>1, <4>2
    <3> QED BY <3>1, <3>2
  <2>6. Len(Buffer!Reverse(d)) = Len(r)
    BY <1>1, <2>1, <2>3, <2>4
  <2>7. \A i \in 1..Len(Buffer!Reverse(d)) : Buffer!Reverse(d)[i] = r[i]
    BY <2>4, <2>5
  <2>8. Buffer!Reverse(d) = r
    BY <2>3, <2>4, <2>6, <2>7, SeqEqual
  <2> QED BY <2>8 DEF d, r
<1> QED BY <1>2, <1>3, <1>4, FlattenCons DEF BytesOf

\* Chunks of bytes that are all full, and chunks of which the last one may have room.
FullChunks(c, B) ==
  c \in Seq(Seq(B)) /\ \A i \in 1..Len(c) : Len(c[i]) = ChunkSize
FitChunks(c, B) ==
  /\ c \in Seq(Seq(B))
  /\ \A i \in 1..Len(c) : Len(c[i]) \in 1..ChunkSize
  /\ \A i \in 1..(Len(c) - 1) : Len(c[i]) = ChunkSize

\* Full chunks are chunks as they may be ...
LEMMA FullAreFit ==
  ASSUME NEW B, ChunkSize \in Nat \ {0}, NEW c, FullChunks(c, B)
  PROVE  FitChunks(c, B)
<1>1. Len(c) \in Nat
  BY EmptySeq DEF FullChunks
<1>2. \A i \in 1..(Len(c) - 1) : i \in 1..Len(c)
  BY <1>1
<1> QED BY <1>2 DEF FullChunks, FitChunks

\* ... and those are full when the last one is.
LEMMA FitAreFull ==
  ASSUME NEW B, ChunkSize \in Nat \ {0}, NEW c, FitChunks(c, B),
         c = <<>> \/ Len(Buffer!Last(c)) = ChunkSize
  PROVE  FullChunks(c, B)
<1>1. Len(c) \in Nat
  BY EmptySeq DEF FitChunks
<1>2. CASE c = <<>>
  BY <1>2 DEF FullChunks, FitChunks
<1>3. CASE Len(Buffer!Last(c)) = ChunkSize
  <2>1. \A i \in 1..Len(c) : i = Len(c) \/ i \in 1..(Len(c) - 1)
    BY <1>1
  <2> QED BY <1>3, <2>1 DEF FullChunks, FitChunks, Buffer!Last
<1> QED BY <1>2, <1>3

\* Full chunks with one more that holds something.
LEMMA FitPush ==
  ASSUME NEW B, ChunkSize \in Nat \ {0}, NEW c, FullChunks(c, B),
         NEW x \in Seq(B), Len(x) \in 1..ChunkSize
  PROVE  FitChunks(Append(c, x), B)
<1>1. Len(c) \in Nat
  BY EmptySeq DEF FullChunks
<1>2. c \in Seq(Seq(B))
  BY DEF FullChunks
<1> DEFINE d == Append(c, x)
<1>3. d \in Seq(Seq(B)) /\ Len(d) = Len(c) + 1 /\ (\A i \in 1..Len(c) : d[i] = c[i]) /\ d[Len(c) + 1] = x
  BY <1>2, AppendProperties
<1> HIDE DEF d
<1>4. \A i \in 1..Len(d) : i \in 1..Len(c) \/ i = Len(c) + 1
  BY <1>1, <1>3
<1>5. \A i \in 1..(Len(d) - 1) : i \in 1..Len(c)
  BY <1>1, <1>3
<1>6. ChunkSize \in 1..ChunkSize
  OBVIOUS
<1>7. FitChunks(d, B)
  BY <1>3, <1>4, <1>5, <1>6 DEF FullChunks, FitChunks
<1> QED BY <1>7 DEF d

\* The last of the chunks and the ones before it.
LEMMA FitSplit ==
  ASSUME NEW B, ChunkSize \in Nat \ {0}, NEW c, FitChunks(c, B), c # <<>>
  PROVE  /\ FullChunks(Buffer!Front(c), B) /\ Len(Buffer!Front(c)) = Len(c) - 1
         /\ Buffer!Last(c) \in Seq(B) /\ Len(Buffer!Last(c)) \in 1..ChunkSize
         /\ BytesOf(c) = Buffer!Last(c) \o BytesOf(Buffer!Front(c))
<1>1. Len(c) \in Nat /\ 1 <= Len(c) /\ c \in Seq(Seq(B))
  BY EmptySeq DEF FitChunks
<1>2. Len(c) \in 1..Len(c)
  BY <1>1
<1>3. Buffer!Last(c) \in Seq(B) /\ Len(Buffer!Last(c)) \in 1..ChunkSize
  BY <1>1, <1>2, ElementOfSeq DEF Buffer!Last, FitChunks
<1> DEFINE d == Buffer!Front(c)
<1>4. d \in Seq(Seq(B)) /\ Len(d) = Len(c) - 1 /\ \A i \in 1..(Len(c) - 1) : d[i] = c[i]
  <2>1. \A i \in 1..(Len(c) - 1) : c[i] \in Seq(B)
    BY <1>1, ElementOfSeq
  <2>2. 1 \in Int /\ Len(c) - 1 \in Int /\ ((Len(c) - 1) - 1) + 1 = Len(c) - 1
    BY <1>1
  <2> DEFINE e == SubSeq(c, 1, Len(c) - 1)
  <2>3. e \in Seq(Seq(B)) /\ Len(e) = (IF 1 <= Len(c) - 1 THEN ((Len(c) - 1) - 1) + 1 ELSE 0)
        /\ \A i \in 1..(((Len(c) - 1) - 1) + 1) : e[i] = c[(1 + i) - 1]
    BY <2>1, <2>2, SubSeqProperties
  <2> HIDE DEF e
  <2>4. Len(e) = Len(c) - 1
    <3>1. \A n \in Nat : 1 <= n => (IF 1 <= n - 1 THEN ((n - 1) - 1) + 1 ELSE 0) = n - 1
      OBVIOUS
    <3>2. Len(e) = (IF 1 <= Len(c) - 1 THEN ((Len(c) - 1) - 1) + 1 ELSE 0)
      BY <2>3
    <3> QED BY <1>1, <3>1, <3>2
  <2>5. \A i \in 1..(Len(c) - 1) : (1 + i) - 1 = i
    BY <1>1
  <2>6. \A i \in 1..(Len(c) - 1) : e[i] = c[i]
    BY <2>2, <2>3, <2>5
  <2> QED BY <2>3, <2>4, <2>6 DEF e, Buffer!Front
<1> HIDE DEF d
<1>5. FullChunks(d, B)
  BY <1>4 DEF FullChunks, FitChunks
<1>6. c = Append(d, Buffer!Last(c))
  <2> DEFINE x == Buffer!Last(c)
             e == Append(d, x)
  <2>1. x \in Seq(B) /\ x = c[Len(c)]
    BY <1>3 DEF Buffer!Last
  <2> HIDE DEF x
  <2>2. e \in Seq(Seq(B)) /\ Len(e) = Len(d) + 1 /\ (\A i \in 1..Len(d) : e[i] = d[i]) /\ e[Len(d) + 1] = x
    BY <1>4, <2>1, AppendProperties
  <2> HIDE DEF e
  <2>3. \A i \in 1..Len(c) : i \in 1..(Len(c) - 1) \/ i = Len(c)
    BY <1>1
  <2>4. Len(d) + 1 = Len(c)
    BY <1>1, <1>4
  <2>5. \A i \in 1..Len(c) : c[i] = e[i]
    BY <1>4, <2>1, <2>2, <2>3, <2>4
  <2>6. Len(c) = Len(e)
    BY <2>2, <2>4
  <2>7. c = e
    BY <1>1, <2>2, <2>5, <2>6, SeqEqual
  <2> QED BY <2>7 DEF e, x
<1>7. BytesOf(Append(d, Buffer!Last(c))) = Buffer!Last(c) \o BytesOf(d)
  BY <1>3, <1>4, BytesAppend
<1> QED BY <1>3, <1>4, <1>5, <1>6, <1>7 DEF d

\* What chunks hold are bytes.
LEMMA BytesAreBytes ==
  ASSUME NEW B, NEW c, FitChunks(c, B)
  PROVE  BytesOf(c) \in Seq(B)
<1>1. c \in Seq(Seq(B)) /\ <<>> \in Seq(B)
  BY DEF FitChunks
<1> QED BY <1>1, BytesAppend

\* What is put together is taken apart at the same place.
LEMMA Halves ==
  ASSUME NEW B, NEW s \in Seq(B), NEW t \in Seq(B)
  PROVE  /\ SubSeq(s \o t, 1, Len(s)) = s
         /\ SubSeq(s \o t, Len(s) + 1, Len(s \o t)) = t
<1> DEFINE u == s \o t
<1>1. Len(s) \in Nat /\ Len(t) \in Nat
  BY EmptySeq
<1>2. u \in Seq(B) /\ Len(u) = Len(s) + Len(t)
      /\ \A i \in 1..(Len(s) + Len(t)) : u[i] = IF i <= Len(s) THEN s[i] ELSE t[i - Len(s)]
  BY ConcatProperties
<1> HIDE DEF u
<1>3. \A i \in 1..Len(u) : u[i] \in B
  BY <1>2, ElementOfSeq
<1>4. SubSeq(u, 1, Len(s)) = s
  <2> DEFINE v == SubSeq(u, 1, Len(s))
  <2>1. \A i \in 1..Len(s) : u[i] \in B
    BY <1>1, <1>2, <1>3
  <2>2. v \in Seq(B) /\ Len(v) = (IF 1 <= Len(s) THEN (Len(s) - 1) + 1 ELSE 0)
        /\ \A i \in 1..((Len(s) - 1) + 1) : v[i] = u[(1 + i) - 1]
    BY <1>1, <2>1, SubSeqProperties
  <2> HIDE DEF v
  <2>3. Len(v) = Len(s) /\ (Len(s) - 1) + 1 = Len(s)
    BY <1>1, <2>2
  <2>4. ASSUME NEW i \in 1..Len(s)  PROVE v[i] = s[i]
    <3>1. (1 + i) - 1 = i /\ i \in 1..(Len(s) + Len(t)) /\ i <= Len(s)
      BY <1>1
    <3> QED BY <1>2, <2>2, <2>3, <3>1
  <2>5. v = s
    BY <2>2, <2>3, <2>4, SeqEqual
  <2> QED BY <2>5 DEF v
<1>5. SubSeq(u, Len(s) + 1, Len(u)) = t
  <2> DEFINE a == Len(s) + 1
             n == Len(u)
             v == SubSeq(u, a, n)
  <2>1. a \in Int /\ n \in Int /\ (n - a) + 1 = Len(t) /\ (\A i \in a..n : i \in 1..Len(u))
        /\ n = Len(s) + Len(t) /\ a = Len(s) + 1
    BY <1>1, <1>2
  <2> HIDE DEF a, n
  <2>2. \A i \in a..n : u[i] \in B
    BY <2>1, <1>3
  <2>3. v \in Seq(B) /\ Len(v) = (IF a <= n THEN (n - a) + 1 ELSE 0)
        /\ \A i \in 1..((n - a) + 1) : v[i] = u[(a + i) - 1]
    BY <2>1, <2>2, SubSeqProperties
  <2> HIDE DEF v
  <2>4. Len(v) = Len(t)
    BY <1>1, <2>1, <2>3
  <2>5. ASSUME NEW i \in 1..Len(t)  PROVE v[i] = t[i]
    <3>1. (a + i) - 1 = Len(s) + i /\ ~(Len(s) + i <= Len(s)) /\ (Len(s) + i) - Len(s) = i
          /\ Len(s) + i \in 1..(Len(s) + Len(t)) /\ i \in 1..((n - a) + 1)
      BY <1>1, <2>1
    <3> QED BY <1>2, <2>3, <3>1
  <2>6. v = t
    BY <2>3, <2>4, <2>5, SeqEqual
  <2> QED BY <2>6 DEF v, a, n
<1> QED BY <1>4, <1>5 DEF u

\* A sequence cut in two.
LEMMA Cut ==
  ASSUME NEW B, NEW s \in Seq(B), NEW k \in 0..Len(s)
  PROVE  /\ SubSeq(s, 1, k) \in Seq(B) /\ Len(SubSeq(s, 1, k)) = k
         /\ SubSeq(s, k + 1, Len(s)) \in Seq(B) /\ Len(SubSeq(s, k + 1, Len(s))) = Len(s) - k
         /\ SubSeq(s, 1, k) \o SubSeq(s, k + 1, Len(s)) = s
<1>1. Len(s) \in Nat /\ k \in Nat /\ k <= Len(s) /\ \A i \in 1..Len(s) : s[i] \in B
  BY EmptySeq, ElementOfSeq
<1>2. SubSeq(s, 1, k) \in Seq(B) /\ Len(SubSeq(s, 1, k)) = k
  <2>1. \A i \in 1..k : s[i] \in B
    BY <1>1
  <2>2. SubSeq(s, 1, k) \in Seq(B) /\ Len(SubSeq(s, 1, k)) = (IF 1 <= k THEN (k - 1) + 1 ELSE 0)
    BY <1>1, <2>1, SubSeqProperties
  <2>3. (IF 1 <= k THEN (k - 1) + 1 ELSE 0) = k
    BY <1>1
  <2> QED BY <2>2, <2>3
<1>3. SubSeq(s, k + 1, Len(s)) \in Seq(B) /\ Len(SubSeq(s, k + 1, Len(s))) = Len(s) - k
  <2>1. \A i \in (k + 1)..Len(s) : s[i] \in B
    BY <1>1
  <2>2. k + 1 \in Int /\ Len(s) \in Int
    BY <1>1
  <2>3. /\ SubSeq(s, k + 1, Len(s)) \in Seq(B)
        /\ Len(SubSeq(s, k + 1, Len(s))) = (IF k + 1 <= Len(s) THEN (Len(s) - (k + 1)) + 1 ELSE 0)
    BY <2>1, <2>2, SubSeqProperties
  <2>4. (IF k + 1 <= Len(s) THEN (Len(s) - (k + 1)) + 1 ELSE 0) = Len(s) - k
    BY <1>1
  <2> QED BY <2>3, <2>4
<1>4. SubSeq(s, 1, k) \o SubSeq(s, k + 1, Len(s)) = s
  <2>1. 1 \in 1..(Len(s) + 1) /\ k \in (1 - 1)..Len(s) /\ Len(s) \in k..Len(s)
    BY <1>1
  <2>2. SubSeq(s, 1, k) \o SubSeq(s, k + 1, Len(s)) = SubSeq(s, 1, Len(s))
    BY <2>1, ConcatAdjacentSubSeq
  <2> QED BY <2>2, SubSeqFull
<1> QED BY <1>2, <1>3, <1>4

\* A message with its chunks as they may be, and the rest of what is being written to it.
Writing(B) == { w \in [chunks : Seq(Seq(B)), spare : Nat, left : Seq(B)] : FitChunks(w.chunks, B) }
Reading(B) == { r \in [chunks : Seq(Seq(B)), spare : Nat, out : Seq(B), short : Nat] : FitChunks(r.chunks, B) }

\* What is written to next is taken off the front of the bytes, and has room.  (take_writable_chunk)
LEMMA Writable ==
  ASSUME NEW B, ChunkSize \in Nat \ {0}, NEW w, FitChunks(w.chunks, B), w.spare \in Nat
  PROVE  LET t == Buffer!TakeWritable(w) IN
         /\ FullChunks(t.chunks, B) /\ t.spare \in Nat /\ t.chunk \in Seq(B) /\ Len(t.chunk) < ChunkSize
         /\ BytesOf(w.chunks) = t.chunk \o BytesOf(t.chunks)
<1> DEFINE t == Buffer!TakeWritable(w)
<1>1. CASE w.chunks # <<>> /\ Len(Buffer!Last(w.chunks)) < ChunkSize
  <2>1. t.chunk = Buffer!Last(w.chunks) /\ t.chunks = Buffer!Front(w.chunks) /\ t.spare = w.spare
    BY <1>1 DEF Buffer!TakeWritable
  <2> HIDE DEF t
  <2>2. /\ FullChunks(t.chunks, B) /\ t.spare \in Nat /\ t.chunk \in Seq(B) /\ Len(t.chunk) < ChunkSize
        /\ BytesOf(w.chunks) = t.chunk \o BytesOf(t.chunks)
    BY <1>1, <2>1, FitSplit
  <2> QED BY <2>2 DEF t
<1>2. CASE ~(w.chunks # <<>> /\ Len(Buffer!Last(w.chunks)) < ChunkSize)
  <2>1. t.chunk = <<>> /\ t.chunks = w.chunks /\ t.spare \in Nat
    <3>1. \A n \in Nat : n > 0 => n - 1 \in Nat
      OBVIOUS
    <3>2. CASE w.spare > 0 /\ (w.chunks = <<>> \/ Len(Buffer!Last(w.chunks)) = ChunkSize)
      BY <1>2, <3>1, <3>2 DEF Buffer!TakeWritable
    <3>3. CASE ~(w.spare > 0 /\ (w.chunks = <<>> \/ Len(Buffer!Last(w.chunks)) = ChunkSize))
      BY <1>2, <3>3 DEF Buffer!TakeWritable
    <3> QED BY <3>2, <3>3
  <2> HIDE DEF t
  <2>2. w.chunks = <<>> \/ Len(Buffer!Last(w.chunks)) = ChunkSize
    <3>1. CASE w.chunks # <<>>
      <4>1. Len(Buffer!Last(w.chunks)) \in 1..ChunkSize
        BY <3>1, FitSplit
      <4> QED BY <1>2, <3>1, <4>1
    <3> QED BY <3>1
  <2>3. FullChunks(w.chunks, B)
    BY <2>2, FitAreFull
  <2>4. BytesOf(w.chunks) = <<>> \o BytesOf(w.chunks) /\ <<>> \in Seq(B) /\ Len(<<>>) < ChunkSize
    BY BytesAreBytes, ConcatEmptySeq, EmptySeq
  <2>5. /\ FullChunks(t.chunks, B) /\ t.spare \in Nat /\ t.chunk \in Seq(B) /\ Len(t.chunk) < ChunkSize
        /\ BytesOf(w.chunks) = t.chunk \o BytesOf(t.chunks)
    BY <2>1, <2>3, <2>4
  <2> QED BY <2>5 DEF t
<1> QED BY <1>1, <1>2

\* A chunk with room takes the end of what is written, all of it or as much as fits.
LEMMA PartFits ==
  ASSUME NEW B, ChunkSize \in Nat \ {0}, NEW buf \in Seq(B), buf # <<>>,
         NEW chunk \in Seq(B), Len(chunk) < ChunkSize
  PROVE  LET p == Buffer!Part(buf, chunk) IN
         /\ p.left \in Seq(B) /\ p.pushed \in Seq(B) /\ p.left \o p.pushed = buf
         /\ Len(p.left) < Len(buf) /\ Len(p.pushed) + Len(chunk) \in 1..ChunkSize
<1>1. Len(buf) \in Nat /\ 1 <= Len(buf) /\ Len(chunk) \in Nat
  BY EmptySeq
<1> DEFINE cut == IF Len(buf) >= ChunkSize - Len(chunk) THEN Len(buf) - (ChunkSize - Len(chunk)) ELSE 0
<1>2. cut \in 0..Len(buf) /\ cut < Len(buf) /\ (Len(buf) - cut) + Len(chunk) \in 1..ChunkSize
  BY <1>1
<1>3. /\ Buffer!Part(buf, chunk).pushed = SubSeq(buf, cut + 1, Len(buf))
      /\ Buffer!Part(buf, chunk).left = SubSeq(buf, 1, cut)
  BY DEF Buffer!Part
<1> HIDE DEF cut
<1> DEFINE p == Buffer!Part(buf, chunk)
<1> HIDE DEF p
<1>4. p.pushed = SubSeq(buf, cut + 1, Len(buf)) /\ p.left = SubSeq(buf, 1, cut)
  BY <1>3 DEF p
<1>5. /\ p.left \in Seq(B) /\ Len(p.left) = cut
      /\ p.pushed \in Seq(B) /\ Len(p.pushed) = Len(buf) - cut /\ p.left \o p.pushed = buf
  <2>1. /\ SubSeq(buf, 1, cut) \in Seq(B) /\ Len(SubSeq(buf, 1, cut)) = cut
        /\ SubSeq(buf, cut + 1, Len(buf)) \in Seq(B) /\ Len(SubSeq(buf, cut + 1, Len(buf))) = Len(buf) - cut
        /\ SubSeq(buf, 1, cut) \o SubSeq(buf, cut + 1, Len(buf)) = buf
    BY <1>2, Cut
  <2> QED BY <1>4, <2>1
<1>6. Len(p.left) < Len(buf) /\ Len(p.pushed) + Len(chunk) \in 1..ChunkSize
  BY <1>2, <1>5
<1> QED BY <1>5, <1>6 DEF p

\* A turn of the loop of write moves the end of what is left to the front of the bytes.
LEMMA TurnKeeps ==
  ASSUME NEW B, ChunkSize \in Nat \ {0}, NEW w \in Writing(B)
  PROVE  /\ Buffer!Turn(w) \in Writing(B)
         /\ Buffer!Turn(w).left \o BytesOf(Buffer!Turn(w).chunks) = w.left \o BytesOf(w.chunks)
         /\ Buffer!Turn(w).left = <<>> \/ Len(Buffer!Turn(w).left) < Len(w.left)
<1>1. CASE w.left = <<>>
  <2>1. Buffer!Turn(w) = w
    BY <1>1 DEF Buffer!Turn
  <2> QED BY <1>1, <2>1
<1>2. CASE w.left # <<>>
  <2> DEFINE t == Buffer!TakeWritable(w)
             p == Buffer!Part(w.left, t.chunk)
             x == p.pushed \o t.chunk
             v == Buffer!Turn(w)
  <2>1. FitChunks(w.chunks, B) /\ w.spare \in Nat /\ w.left \in Seq(B)
    BY DEF Writing
  <2>2. v = [chunks |-> Append(t.chunks, x), spare |-> t.spare, left |-> p.left]
    BY <1>2 DEF Buffer!Turn
  <2>3. /\ FullChunks(t.chunks, B) /\ t.spare \in Nat /\ t.chunk \in Seq(B) /\ Len(t.chunk) < ChunkSize
        /\ BytesOf(w.chunks) = t.chunk \o BytesOf(t.chunks)
    BY <2>1, Writable
  <2> HIDE DEF t
  <2>4. /\ p.left \in Seq(B) /\ p.pushed \in Seq(B) /\ p.left \o p.pushed = w.left
        /\ Len(p.left) < Len(w.left) /\ Len(p.pushed) + Len(t.chunk) \in 1..ChunkSize
    BY <1>2, <2>1, <2>3, PartFits
  <2> HIDE DEF p
  <2>5. x \in Seq(B) /\ Len(x) \in 1..ChunkSize
    BY <2>3, <2>4, ConcatProperties
  <2>6. t.chunks \in Seq(Seq(B)) /\ BytesOf(t.chunks) \in Seq(B)
    BY <2>3, BytesAreBytes, FullAreFit DEF FullChunks
  <2>7. BytesOf(Append(t.chunks, x)) = x \o BytesOf(t.chunks)
    <3> HIDE DEF x
    <3> QED BY <2>5, <2>6, BytesAppend
  <2>8. FitChunks(Append(t.chunks, x), B) /\ Append(t.chunks, x) \in Seq(Seq(B))
    <3> HIDE DEF x
    <3> QED BY <2>3, <2>5, <2>6, FitPush, AppendProperties
  <2>9. p.left \o (x \o BytesOf(t.chunks)) = w.left \o BytesOf(w.chunks)
    <3> DEFINE a == p.left
               c == p.pushed
               d == t.chunk
               e == BytesOf(t.chunks)
    <3>1. a \in Seq(B) /\ c \in Seq(B) /\ d \in Seq(B) /\ e \in Seq(B)
      BY <2>3, <2>4, <2>6
    <3> HIDE DEF a, c, d, e
    <3>2. a \o ((c \o d) \o e) = (a \o c) \o (d \o e)
      <4> DEFINE y == d \o e
      <4>1. (c \o d) \o e = c \o y /\ y \in Seq(B)
        BY <3>1, ConcatAssociative, ConcatProperties
      <4> HIDE DEF y
      <4>2. (a \o c) \o y = a \o (c \o y)
        BY <3>1, <4>1, ConcatAssociative
      <4> QED BY <4>1, <4>2 DEF y
    <3>3. a \o c = w.left /\ d \o e = BytesOf(w.chunks) /\ x = c \o d
      BY <2>3, <2>4 DEF a, c, d, e
    <3>4. a \o (x \o e) = w.left \o BytesOf(w.chunks)
      BY <3>2, <3>3
    <3> QED BY <3>4 DEF a, e
  <2> HIDE DEF x
  <2>10. v.chunks = Append(t.chunks, x) /\ v.left = p.left /\ v.spare = t.spare
    BY <2>2
  <2>11. v \in [chunks : Seq(Seq(B)), spare : Nat, left : Seq(B)]
    BY <2>2, <2>3, <2>4, <2>8
  <2> HIDE DEF v
  <2>12. v \in Writing(B)
    BY <2>8, <2>10, <2>11 DEF Writing
  <2>13. v.left \o BytesOf(v.chunks) = w.left \o BytesOf(w.chunks)
    BY <2>7, <2>9, <2>10
  <2>14. Len(v.left) < Len(w.left)
    BY <2>4, <2>10
  <2> QED BY <2>12, <2>13, <2>14 DEF v
<1> QED BY <1>1, <1>2

\* Writing puts what is written in front of the bytes of the chunks.
LEMMA WrittenInFront ==
  ASSUME NEW B, ChunkSize \in Nat \ {0}, NEW m, FitChunks(m.chunks, B), m.spare \in Nat, NEW buf \in Seq(B)
  PROVE  /\ FitChunks(Buffer!Written(m, buf).chunks, B) /\ Buffer!Written(m, buf).spare \in Nat
         /\ BytesOf(Buffer!Written(m, buf).chunks) = buf \o BytesOf(m.chunks)
<1> DEFINE first == [chunks |-> m.chunks, spare |-> m.spare, left |-> buf]
           W == Writing(B)
           F == [p \in Nat \X W |-> Buffer!Turn(p[2])]
           Eq(g) == g = [n \in 0..Len(buf) |-> IF n = 0 THEN first ELSE Buffer!Turn(g[n - 1])]
<1>1. Len(buf) \in Nat
  BY EmptySeq
<1>2. first \in W
  BY DEF Writing, FitChunks
<1>3. F \in [Nat \X W -> W]
  <2>1. \A w \in W : Buffer!Turn(w) \in W
    BY TurnKeeps
  <2> HIDE DEF W
  <2> QED BY <2>1
<1>4. \A n \in Nat, w \in W : F[<<n, w>>] = Buffer!Turn(w)
  OBVIOUS
<1>5. Buffer!Written(m, buf) = (CHOOSE g : Eq(g))[Len(buf)]
  BY DEF Buffer!Written
<1> HIDE DEF first, W, F
<1>6. PICK f : Iteration(f, W, Len(buf), first, F)
  BY <1>1, <1>2, <1>3, Iterates
<1>7. Eq(f)
  <2>1. ASSUME NEW n \in 0..Len(buf), n # 0  PROVE f[n] = Buffer!Turn(f[n - 1])
    <3>1. n \in Nat /\ n \in 1..Len(buf) /\ n - 1 \in 0..Len(buf)
      BY <1>1, <2>1
    <3>2. f[n - 1] \in W /\ f[n] = F[<<n, f[n - 1]>>]
      BY <1>6, <3>1 DEF Iteration
    <3> QED BY <1>4, <3>1, <3>2
  <2>2. f \in [0..Len(buf) -> W] /\ f[0] = first
    BY <1>6 DEF Iteration
  <2>3. \A n \in 0..Len(buf) : f[n] = IF n = 0 THEN first ELSE Buffer!Turn(f[n - 1])
    BY <2>1, <2>2
  <2> QED BY <2>2, <2>3
<1> DEFINE g == CHOOSE g : Eq(g)
<1>8. Eq(g)
  <2> HIDE DEF Eq
  <2> QED BY <1>7
<1> HIDE DEF g
<1>9. \A n \in 0..Len(buf) : g[n] = IF n = 0 THEN first ELSE Buffer!Turn(g[n - 1])
  BY <1>8
<1> DEFINE Good(n) == /\ g[n] \in W
                      /\ g[n].left \o BytesOf(g[n].chunks) = buf \o BytesOf(m.chunks)
                      /\ g[n].left = <<>> \/ Len(g[n].left) + n <= Len(buf)
           T == { n \in Nat : n <= Len(buf) => Good(n) }
<1>10. 0 \in T
  <2>1. 0 \in 0..Len(buf)
    BY <1>1
  <2>2. g[0] = first
    BY <1>9, <2>1
  <2>3. first.left = buf /\ first.chunks = m.chunks
    BY DEF first
  <2>4. Good(0)
    BY <1>2, <2>2, <2>3
  <2> QED BY <2>4
<1>11. ASSUME NEW n \in Nat, n \in T  PROVE n + 1 \in T
  <2>1. SUFFICES ASSUME n + 1 <= Len(buf)  PROVE Good(n + 1)
    <3> HIDE DEF Good
    <3> QED OBVIOUS
  <2>2. n + 1 \in 0..Len(buf) /\ n + 1 # 0 /\ (n + 1) - 1 = n /\ n <= Len(buf)
    BY <1>1, <2>1
  <2> DEFINE w == g[n]
             v == g[n + 1]
  <2>3. v = Buffer!Turn(w)
    BY <1>9, <2>2
  <2>4. /\ w \in W /\ w.left \o BytesOf(w.chunks) = buf \o BytesOf(m.chunks)
        /\ w.left = <<>> \/ Len(w.left) + n <= Len(buf)
    BY <1>11, <2>2
  <2> HIDE DEF w, v
  <2>5. w \in Writing(B)
    BY <2>4 DEF W
  <2>6. /\ v \in Writing(B) /\ v.left \o BytesOf(v.chunks) = w.left \o BytesOf(w.chunks)
        /\ v.left = <<>> \/ Len(v.left) < Len(w.left)
    BY <2>3, <2>5, TurnKeeps
  <2>7. v.left = <<>> \/ Len(v.left) + (n + 1) <= Len(buf)
    <3>1. CASE v.left # <<>>
      <4>1. Len(v.left) \in Nat /\ Len(w.left) \in Nat
        BY <2>5, <2>6, EmptySeq DEF Writing
      <4>2. Len(v.left) < Len(w.left)
        BY <2>6, <3>1
      <4>3. w.left # <<>>
        BY <4>1, <4>2, EmptySeq
      <4>4. Len(w.left) + n <= Len(buf)
        BY <2>4, <4>3
      <4>5. \A i, j, k, l \in Nat : i < j /\ j + k <= l => i + (k + 1) <= l
        OBVIOUS
      <4>6. Len(v.left) + (n + 1) <= Len(buf)
        BY <1>1, <4>1, <4>2, <4>4, <4>5
      <4> QED BY <4>6
    <3> QED BY <3>1
  <2>8. v \in W /\ v.left \o BytesOf(v.chunks) = buf \o BytesOf(m.chunks)
    BY <2>4, <2>6 DEF W
  <2> QED BY <2>7, <2>8 DEF v
<1> HIDE DEF T
<1>12. Len(buf) \in T
  BY <1>1, <1>10, <1>11, Induction
<1> DEFINE v == g[Len(buf)]
<1>13. /\ v \in W /\ v.left \o BytesOf(v.chunks) = buf \o BytesOf(m.chunks)
       /\ v.left = <<>> \/ Len(v.left) + Len(buf) <= Len(buf)
  <2>1. Good(Len(buf))
    <3> HIDE DEF Good
    <3> QED BY <1>1, <1>12 DEF T
  <2> QED BY <2>1
<1>14. Buffer!Written(m, buf) = v
  BY <1>5 DEF g
<1> HIDE DEF v
<1>15. v.left \in Seq(B) /\ FitChunks(v.chunks, B) /\ v.spare \in Nat
  BY <1>13 DEF W, Writing
<1>16. v.left = <<>>
  <2>1. Len(v.left) \in Nat
    BY <1>15, EmptySeq
  <2> QED BY <1>1, <1>13, <1>15, <2>1, EmptySeq
<1>17. BytesOf(v.chunks) = buf \o BytesOf(m.chunks)
  <2>1. <<>> \o BytesOf(v.chunks) = BytesOf(v.chunks)
    BY <1>15, BytesAreBytes, ConcatEmptySeq
  <2> QED BY <1>13, <1>16, <2>1
<1> QED BY <1>14, <1>15, <1>17

\* When there is nothing to take or nothing is wanted, nothing is taken.
LEMMA PopNone ==
  ASSUME NEW B, ChunkSize \in Nat \ {0}, NEW r \in Reading(B), r.chunks = <<>> \/ r.short = 0
  PROVE  Buffer!Pop(r) = r
<1>1. CASE r.chunks = <<>>
  BY <1>1 DEF Buffer!Pop
<1>2. CASE r.chunks # <<>>
  <2>1. Len(Buffer!Last(r.chunks)) \in 1..ChunkSize
    BY <1>2, FitSplit DEF Reading
  <2>2. ~(r.short >= Len(Buffer!Last(r.chunks)))
    BY <1>2, <2>1
  <2> QED BY <1>2, <2>2 DEF Buffer!Pop
<1> QED BY <1>1, <1>2

\* A turn of the loop of read moves the front of the bytes to the end of what was read.
LEMMA PopKeeps ==
  ASSUME NEW B, ChunkSize \in Nat \ {0}, NEW r \in Reading(B)
  PROVE  /\ Buffer!Pop(r) \in Reading(B)
         /\ Buffer!Pop(r).out \o BytesOf(Buffer!Pop(r).chunks) = r.out \o BytesOf(r.chunks)
         /\ Len(Buffer!Pop(r).out) + Buffer!Pop(r).short = Len(r.out) + r.short
         /\ \/ Buffer!Pop(r).short = 0 \/ Buffer!Pop(r).chunks = <<>>
            \/ Len(Buffer!Pop(r).chunks) + 1 = Len(r.chunks)
<1> DEFINE v == Buffer!Pop(r)
           Kept == /\ v \in Reading(B)
                   /\ v.out \o BytesOf(v.chunks) = r.out \o BytesOf(r.chunks)
                   /\ Len(v.out) + v.short = Len(r.out) + r.short
                   /\ v.short = 0 \/ v.chunks = <<>> \/ Len(v.chunks) + 1 = Len(r.chunks)
<1>1. /\ FitChunks(r.chunks, B) /\ r.chunks \in Seq(Seq(B)) /\ r.spare \in Nat
      /\ r.out \in Seq(B) /\ r.short \in Nat /\ Len(r.out) \in Nat
  BY EmptySeq DEF Reading
<1>2. CASE r.chunks = <<>> \/ r.short = 0
  <2>1. v = r
    BY <1>2, PopNone
  <2> HIDE DEF v
  <2>2. Kept
    BY <1>2, <2>1
  <2> QED BY <2>2 DEF v
<1>3. CASE r.chunks # <<>> /\ r.short # 0
  <2> DEFINE top == Buffer!Last(r.chunks)
             rest == Buffer!Front(r.chunks)
  <2>1. /\ FullChunks(rest, B) /\ Len(rest) = Len(r.chunks) - 1
        /\ top \in Seq(B) /\ Len(top) \in 1..ChunkSize
        /\ BytesOf(r.chunks) = top \o BytesOf(rest)
    BY <1>1, <1>3, FitSplit
  <2>2. /\ rest \in Seq(Seq(B)) /\ FitChunks(rest, B) /\ BytesOf(rest) \in Seq(B)
        /\ Len(r.chunks) \in Nat /\ Len(top) \in Nat
    BY <1>1, <2>1, FullAreFit, BytesAreBytes, EmptySeq DEF FullChunks
  <2>3. CASE r.short >= Len(top)
    <3>1. v = [chunks |-> rest, spare |-> r.spare + 1, out |-> r.out \o top, short |-> r.short - Len(top)]
      BY <1>3, <2>3 DEF Buffer!Pop
    <3> HIDE DEF v, top, rest
    <3>2. r.out \o top \in Seq(B) /\ Len(r.out \o top) = Len(r.out) + Len(top)
      BY <1>1, <2>1, ConcatProperties
    <3>3. r.short - Len(top) \in Nat /\ r.spare + 1 \in Nat
      BY <1>1, <2>2, <2>3
    <3>4. v \in Reading(B)
      BY <2>2, <3>1, <3>2, <3>3 DEF Reading
    <3>5. v.chunks = rest /\ v.out = r.out \o top /\ v.short = r.short - Len(top)
      BY <3>1
    <3>6. v.out \o BytesOf(v.chunks) = r.out \o BytesOf(r.chunks)
      <4> DEFINE a == r.out
                 b == BytesOf(rest)
      <4>1. a \in Seq(B) /\ b \in Seq(B)
        BY <1>1, <2>2
      <4> HIDE DEF a, b
      <4>2. top \in Seq(B)
        BY <2>1
      <4>3. (a \o top) \o b = a \o (top \o b)
        BY <4>1, <4>2, ConcatAssociative
      <4> QED BY <2>1, <3>5, <4>3 DEF a, b
    <3>7. Len(v.out) + v.short = Len(r.out) + r.short
      BY <1>1, <2>2, <3>2, <3>5
    <3>8. Len(v.chunks) + 1 = Len(r.chunks)
      BY <2>1, <2>2, <3>5
    <3>9. Kept
      BY <3>4, <3>6, <3>7, <3>8
    <3> QED BY <3>9 DEF v
  <2>4. CASE ~(r.short >= Len(top))
    <3> DEFINE k == r.short
               n == Len(top)
               h == SubSeq(top, 1, k)
               x == SubSeq(top, k + 1, n)
    <3>1. v = [chunks |-> Append(rest, x), spare |-> r.spare, out |-> r.out \o h, short |-> 0]
      BY <1>3, <2>4 DEF Buffer!Pop
    <3>2. k \in 0..n /\ n - k \in 1..ChunkSize /\ k \in Nat
      BY <1>1, <2>1, <2>2, <2>4
    <3> HIDE DEF v, rest, k
    <3>3. h \in Seq(B) /\ Len(h) = k /\ x \in Seq(B) /\ Len(x) = n - k /\ h \o x = top
      <4>1. k \in 0..Len(top) /\ top \in Seq(B)
        BY <2>1, <3>2
      <4> HIDE DEF top
      <4> QED BY <4>1, Cut
    <3> HIDE DEF top, h, x, n
    <3>4. r.out \o h \in Seq(B) /\ Len(r.out \o h) = Len(r.out) + Len(h)
      BY <1>1, <3>3, ConcatProperties
    <3>5. Append(rest, x) \in Seq(Seq(B)) /\ FitChunks(Append(rest, x), B)
      BY <2>1, <2>2, <3>2, <3>3, FitPush, AppendProperties
    <3>6. BytesOf(Append(rest, x)) = x \o BytesOf(rest)
      BY <2>2, <3>3, BytesAppend
    <3>7. v \in Reading(B)
      BY <1>1, <3>1, <3>4, <3>5 DEF Reading
    <3>8. v.chunks = Append(rest, x) /\ v.out = r.out \o h /\ v.short = 0
      BY <3>1
    <3>9. v.out \o BytesOf(v.chunks) = r.out \o BytesOf(r.chunks)
      <4> DEFINE a == r.out
                 b == BytesOf(rest)
      <4>1. a \in Seq(B) /\ b \in Seq(B) /\ h \in Seq(B) /\ x \in Seq(B)
        BY <1>1, <2>2, <3>3
      <4> HIDE DEF a, b
      <4> DEFINE y == x \o b
      <4>2. (h \o x) \o b = h \o y /\ y \in Seq(B)
        BY <4>1, ConcatAssociative, ConcatProperties
      <4> HIDE DEF y
      <4>3. (a \o h) \o y = a \o (h \o y)
        BY <4>1, <4>2, ConcatAssociative
      <4>4. v.out \o BytesOf(v.chunks) = (a \o h) \o y
        BY <3>6, <3>8 DEF a, b, y
      <4>5. r.out \o BytesOf(r.chunks) = a \o (h \o y)
        BY <2>1, <3>3, <4>2 DEF a, b
      <4> QED BY <4>3, <4>4, <4>5
    <3>10. Len(v.out) + v.short = Len(r.out) + r.short
      BY <1>1, <3>2, <3>3, <3>4, <3>8 DEF k
    <3>11. Kept
      BY <3>7, <3>8, <3>9, <3>10
    <3> QED BY <3>11 DEF v
  <2> QED BY <2>3, <2>4
<1> QED BY <1>2, <1>3

\* Reading takes from the front of the bytes as many as asked for, or all there are.
LEMMA TakenFromFront ==
  ASSUME NEW B, ChunkSize \in Nat \ {0}, NEW m, FitChunks(m.chunks, B), m.spare \in Nat, m.out = <<>>,
         NEW n \in Nat
  PROVE  LET v == Buffer!Taken(m, n) IN
         /\ FitChunks(v.chunks, B) /\ v.spare \in Nat /\ v.out \in Seq(B) /\ v.short \in Nat
         /\ v.out \o BytesOf(v.chunks) = BytesOf(m.chunks)
         /\ Len(v.out) + v.short = n /\ (v.short = 0 \/ v.chunks = <<>>)
<1> DEFINE first == [chunks |-> m.chunks, spare |-> m.spare, out |-> m.out, short |-> n]
           R == Reading(B)
           K == Len(m.chunks)
           F == [p \in Nat \X R |-> Buffer!Pop(p[2])]
           Eq(g) == g = [i \in 0..Len(m.chunks) |-> IF i = 0 THEN first ELSE Buffer!Pop(g[i - 1])]
<1>1. K \in Nat /\ m.chunks \in Seq(Seq(B))
  BY EmptySeq DEF FitChunks
<1>2. first \in R
  BY <1>1, EmptySeq DEF Reading
<1>3. F \in [Nat \X R -> R]
  <2>1. \A w \in R : Buffer!Pop(w) \in R
    BY PopKeeps
  <2> HIDE DEF R
  <2> QED BY <2>1
<1>4. \A i \in Nat, w \in R : F[<<i, w>>] = Buffer!Pop(w)
  OBVIOUS
<1>5. Buffer!Taken(m, n) = (CHOOSE g : Eq(g))[K]
  BY DEF Buffer!Taken
<1> HIDE DEF first, R, F
<1>6. PICK f : Iteration(f, R, K, first, F)
  <2> HIDE DEF K
  <2> QED BY <1>1, <1>2, <1>3, Iterates
<1>7. Eq(f)
  <2>1. ASSUME NEW i \in 0..K, i # 0  PROVE f[i] = Buffer!Pop(f[i - 1])
    <3>1. i \in Nat /\ i \in 1..K /\ i - 1 \in 0..K
      BY <1>1, <2>1
    <3>2. f[i - 1] \in R /\ f[i] = F[<<i, f[i - 1]>>]
      BY <1>6, <3>1 DEF Iteration
    <3> QED BY <1>4, <3>1, <3>2
  <2>2. f \in [0..K -> R] /\ f[0] = first
    BY <1>6 DEF Iteration
  <2>3. \A i \in 0..K : f[i] = IF i = 0 THEN first ELSE Buffer!Pop(f[i - 1])
    BY <2>1, <2>2
  <2> QED BY <2>2, <2>3
<1> DEFINE g == CHOOSE g : Eq(g)
<1>8. Eq(g)
  <2> HIDE DEF Eq
  <2> QED BY <1>7
<1> HIDE DEF g
<1>9. \A i \in 0..K : g[i] = IF i = 0 THEN first ELSE Buffer!Pop(g[i - 1])
  BY <1>8
<1> HIDE DEF K
<1> DEFINE Good(i) == /\ g[i] \in R
                      /\ g[i].out \o BytesOf(g[i].chunks) = BytesOf(m.chunks)
                      /\ Len(g[i].out) + g[i].short = n
                      /\ g[i].short = 0 \/ g[i].chunks = <<>> \/ Len(g[i].chunks) + i = K
           T == { i \in Nat : i <= K => Good(i) }
<1>10. 0 \in T
  <2>1. 0 \in 0..K
    BY <1>1
  <2>2. g[0] = first
    BY <1>9, <2>1
  <2>3. first.out = <<>> /\ first.chunks = m.chunks /\ first.short = n
    BY DEF first
  <2>4. first.out \o BytesOf(first.chunks) = BytesOf(m.chunks)
    BY <2>3, BytesAreBytes, ConcatEmptySeq
  <2>5. Len(first.out) + first.short = n
    BY <2>3
  <2>6. Len(first.chunks) + 0 = K
    BY <1>1, <2>3 DEF K
  <2>7. Good(0)
    BY <1>2, <2>2, <2>4, <2>5, <2>6
  <2> QED BY <2>7
<1>11. ASSUME NEW i \in Nat, i \in T  PROVE i + 1 \in T
  <2>1. SUFFICES ASSUME i + 1 <= K  PROVE Good(i + 1)
    <3> HIDE DEF Good
    <3> QED OBVIOUS
  <2>2. i + 1 \in 0..K /\ i + 1 # 0 /\ (i + 1) - 1 = i /\ i <= K
    BY <1>1, <2>1
  <2> DEFINE w == g[i]
             v == g[i + 1]
  <2>3. v = Buffer!Pop(w)
    BY <1>9, <2>2
  <2>4. /\ w \in R /\ w.out \o BytesOf(w.chunks) = BytesOf(m.chunks)
        /\ Len(w.out) + w.short = n
        /\ w.short = 0 \/ w.chunks = <<>> \/ Len(w.chunks) + i = K
    BY <1>11, <2>2
  <2> HIDE DEF w, v
  <2>5. w \in Reading(B)
    BY <2>4 DEF R
  <2>6. /\ v \in Reading(B) /\ v.out \o BytesOf(v.chunks) = w.out \o BytesOf(w.chunks)
        /\ Len(v.out) + v.short = Len(w.out) + w.short
        /\ v.short = 0 \/ v.chunks = <<>> \/ Len(v.chunks) + 1 = Len(w.chunks)
    BY <2>3, <2>5, PopKeeps
  <2>7. v.short = 0 \/ v.chunks = <<>> \/ Len(v.chunks) + (i + 1) = K
    <3>1. CASE v.short # 0 /\ v.chunks # <<>>
      <4>1. Len(v.chunks) + 1 = Len(w.chunks)
        BY <2>6, <3>1
      <4>2. Len(v.chunks) \in Nat /\ Len(w.chunks) \in Nat
        BY <2>5, <2>6, EmptySeq DEF Reading
      <4>3. w.chunks # <<>>
        BY <4>1, <4>2, EmptySeq
      <4>4. w.short # 0
        <5>1. CASE w.short = 0
          <6>1. v = w
            BY <2>3, <2>5, <4>3, <5>1, PopNone
          <6> QED BY <3>1, <5>1, <6>1
        <5> QED BY <5>1
      <4>5. Len(w.chunks) + i = K
        BY <2>4, <4>3, <4>4
      <4> DEFINE a == Len(v.chunks)
                 b == Len(w.chunks)
      <4>6. a \in Nat /\ b \in Nat /\ a + 1 = b /\ b + i = K
        BY <4>1, <4>2, <4>5
      <4> HIDE DEF a, b
      <4>7. a + (i + 1) = K
        BY <1>1, <4>6
      <4> QED BY <4>7 DEF a
    <3> QED BY <3>1
  <2>8. /\ v \in R /\ v.out \o BytesOf(v.chunks) = BytesOf(m.chunks)
        /\ Len(v.out) + v.short = n
    BY <2>4, <2>6 DEF R
  <2> QED BY <2>7, <2>8 DEF v
<1> HIDE DEF T
<1>12. K \in T
  BY <1>1, <1>10, <1>11, Induction
<1> DEFINE v == g[K]
<1>13. /\ v \in R /\ v.out \o BytesOf(v.chunks) = BytesOf(m.chunks)
       /\ Len(v.out) + v.short = n
       /\ v.short = 0 \/ v.chunks = <<>> \/ Len(v.chunks) + K = K
  <2>1. Good(K)
    <3> HIDE DEF Good
    <3> QED BY <1>1, <1>12 DEF T
  <2> QED BY <2>1
<1>14. Buffer!Taken(m, n) = v
  BY <1>5 DEF g
<1> HIDE DEF v
<1>15. /\ FitChunks(v.chunks, B) /\ v.spare \in Nat /\ v.out \in Seq(B) /\ v.short \in Nat
       /\ v.chunks \in Seq(Seq(B)) /\ Len(v.chunks) \in Nat
  BY <1>13, EmptySeq DEF R, Reading
<1>16. v.short = 0 \/ v.chunks = <<>>
  <2>1. \A a, b \in Nat : a + b = b => a = 0
    OBVIOUS
  <2>2. Len(v.chunks) + K = K => v.chunks = <<>>
    BY <1>1, <1>15, <2>1, EmptySeq
  <2> QED BY <1>13, <2>2
<1>17. /\ FitChunks(v.chunks, B) /\ v.spare \in Nat /\ v.out \in Seq(B) /\ v.short \in Nat
       /\ v.out \o BytesOf(v.chunks) = BytesOf(m.chunks)
       /\ Len(v.out) + v.short = n /\ (v.short = 0 \/ v.chunks = <<>>)
  BY <1>13, <1>15, <1>16
<1> QED BY <1>14, <1>17

\* The chunks of a message are as they may be.  (Message::chunks)
BufferInv(B) == FitChunks(chunks, B) /\ spare \in Nat

\* A step on the chunks is one on the stack of bytes, and leaves the chunks as they may be.
LEMMA BufferStep ==
  ASSUME NEW B, ChunkSize \in Nat \ {0}, Writes \subseteq Seq(B), Counts \subseteq Nat, BufferInv(B), Buffer!Next
  PROVE  BufferInv(B)' /\ Buffer!Stack!Next
<1>1. Buffer!bytes = BytesOf(chunks) /\ Buffer!bytes' = BytesOf(chunks')
  BY DEF Buffer!bytes, BytesOf
<1>2. FitChunks(chunks, B) /\ spare \in Nat /\ BytesOf(chunks) \in Seq(B)
  BY BytesAreBytes DEF BufferInv
<1>3. ASSUME NEW b \in Writes, Buffer!Write(b)  PROVE BufferInv(B)' /\ Buffer!Stack!Write(b)
  <2> DEFINE m == [chunks |-> chunks, spare |-> spare]
  <2>1. m.chunks = chunks /\ m.spare = spare /\ b \in Seq(B)
    OBVIOUS
  <2>2. chunks' = Buffer!Written(m, b).chunks /\ spare' = Buffer!Written(m, b).spare
        /\ Len(Buffer!bytes) + Len(b) <= MaxLen /\ result' = [wrote |-> Len(b)]
    BY <1>3 DEF Buffer!Write
  <2> HIDE DEF m
  <2>3. /\ FitChunks(Buffer!Written(m, b).chunks, B) /\ Buffer!Written(m, b).spare \in Nat
        /\ BytesOf(Buffer!Written(m, b).chunks) = b \o BytesOf(m.chunks)
    BY <1>2, <2>1, WrittenInFront
  <2>4. BufferInv(B)'
    BY <2>2, <2>3 DEF BufferInv, FitChunks
  <2>5. Buffer!bytes' = b \o Buffer!bytes
    BY <1>1, <2>1, <2>2, <2>3
  <2> QED BY <2>2, <2>4, <2>5 DEF Buffer!Stack!Write
<1>4. ASSUME NEW n \in Counts
      PROVE  LET v == Buffer!Now(n)
                 k == IF n < Len(Buffer!bytes) THEN n ELSE Len(Buffer!bytes)
             IN  /\ FitChunks(v.chunks, B) /\ v.spare \in Nat
                 /\ v.out = SubSeq(Buffer!bytes, 1, k) /\ BytesOf(v.chunks) = SubSeq(Buffer!bytes, k + 1, Len(Buffer!bytes))
                 /\ v.short = 0 <=> n <= Len(Buffer!bytes)
  <2> DEFINE m == [chunks |-> chunks, spare |-> spare, out |-> <<>>]
             v == Buffer!Taken(m, n)
             k == IF n < Len(Buffer!bytes) THEN n ELSE Len(Buffer!bytes)
  <2>1. m.chunks = chunks /\ m.spare = spare /\ m.out = <<>> /\ n \in Nat
    OBVIOUS
  <2>2. Buffer!Now(n) = v
    BY DEF Buffer!Now
  <2> HIDE DEF m
  <2>3. /\ FitChunks(v.chunks, B) /\ v.spare \in Nat /\ v.out \in Seq(B) /\ v.short \in Nat
        /\ v.out \o BytesOf(v.chunks) = BytesOf(m.chunks)
        /\ Len(v.out) + v.short = n /\ (v.short = 0 \/ v.chunks = <<>>)
    BY <1>2, <2>1, TakenFromFront
  <2> HIDE DEF v
  <2> DEFINE s == v.out
             t == BytesOf(v.chunks)
  <2>4. s \in Seq(B) /\ t \in Seq(B)
    BY <2>3, BytesAreBytes
  <2>5. Buffer!bytes = s \o t
    BY <1>1, <2>1, <2>3
  <2>6. v.chunks = <<>> => t = <<>>
    <3>1. <<>> \in Seq(Seq(B)) /\ <<>> \in Seq(B)
      OBVIOUS
    <3>2. BytesOf(<<>>) = <<>>
      BY <3>1, BytesAppend
    <3> QED BY <3>2
  <2> HIDE DEF s, t
  <2>7. Len(s) \in Nat /\ Len(t) \in Nat /\ Len(Buffer!bytes) = Len(s) + Len(t)
    BY <2>4, <2>5, ConcatProperties, EmptySeq
  <2>8. Len(s) + v.short = n /\ (v.short = 0 \/ Len(t) = 0)
    BY <2>3, <2>6, EmptySeq DEF s
  <2>9. k = Len(s) /\ (v.short = 0 <=> n <= Len(Buffer!bytes))
    BY <2>1, <2>3, <2>7, <2>8
  <2>10. s = SubSeq(Buffer!bytes, 1, Len(s)) /\ t = SubSeq(Buffer!bytes, Len(s) + 1, Len(Buffer!bytes))
    BY <2>4, <2>5, Halves
  <2> HIDE DEF k
  <2>11. v.out = SubSeq(Buffer!bytes, 1, k) /\ BytesOf(v.chunks) = SubSeq(Buffer!bytes, k + 1, Len(Buffer!bytes))
    BY <2>9, <2>10 DEF s, t
  <2> QED BY <2>2, <2>3, <2>9, <2>11 DEF k
<1>5. ASSUME NEW n \in Counts, Buffer!Read(n)  PROVE BufferInv(B)' /\ Buffer!Stack!Read(n)
  <2> DEFINE v == Buffer!Now(n)
             k == IF n < Len(Buffer!bytes) THEN n ELSE Len(Buffer!bytes)
  <2>1. chunks' = v.chunks /\ spare' = v.spare /\ result' = [read |-> v.out]
    BY <1>5 DEF Buffer!Read
  <2>2. /\ FitChunks(v.chunks, B) /\ v.spare \in Nat
        /\ v.out = SubSeq(Buffer!bytes, 1, k) /\ BytesOf(v.chunks) = SubSeq(Buffer!bytes, k + 1, Len(Buffer!bytes))
    BY <1>4
  <2> HIDE DEF v, k
  <2>3. BufferInv(B)'
    BY <2>1, <2>2 DEF BufferInv, FitChunks
  <2>4. Buffer!bytes' = SubSeq(Buffer!bytes, k + 1, Len(Buffer!bytes)) /\ result' = [read |-> SubSeq(Buffer!bytes, 1, k)]
    BY <1>1, <2>1, <2>2
  <2>5. Buffer!Stack!Read(n)
    BY <2>4 DEF Buffer!Stack!Read, Buffer!Stack!Least, k
  <2> QED BY <2>3, <2>5
<1>6. ASSUME NEW n \in Counts, Buffer!Discard(n)  PROVE BufferInv(B)' /\ Buffer!Stack!Discard(n)
  <2> DEFINE v == Buffer!Now(n)
             k == IF n < Len(Buffer!bytes) THEN n ELSE Len(Buffer!bytes)
  <2>1. chunks' = v.chunks /\ spare' = v.spare /\ result' = [ok |-> v.short = 0]
    BY <1>6 DEF Buffer!Discard
  <2>2. /\ FitChunks(v.chunks, B) /\ v.spare \in Nat
        /\ BytesOf(v.chunks) = SubSeq(Buffer!bytes, k + 1, Len(Buffer!bytes))
        /\ v.short = 0 <=> n <= Len(Buffer!bytes)
    BY <1>4
  <2> HIDE DEF v, k
  <2>3. BufferInv(B)'
    BY <2>1, <2>2 DEF BufferInv, FitChunks
  <2>4. Buffer!bytes' = SubSeq(Buffer!bytes, k + 1, Len(Buffer!bytes))
    BY <1>1, <2>1, <2>2
  <2>5. result' = [ok |-> n <= Len(Buffer!bytes)]
    <3>1. (v.short = 0) = (n <= Len(Buffer!bytes))
      BY <2>2
    <3> QED BY <2>1, <3>1
  <2>6. Buffer!Stack!Discard(n)
    BY <2>4, <2>5 DEF Buffer!Stack!Discard, Buffer!Stack!Least, k
  <2> QED BY <2>3, <2>6
<1>7. CASE \E b \in Writes : Buffer!Write(b)
  BY <1>3, <1>7 DEF Buffer!Stack!Next
<1>8. CASE \E n \in Counts : Buffer!Read(n) \/ Buffer!Discard(n)
  BY <1>5, <1>6, <1>8 DEF Buffer!Stack!Next
<1> QED BY <1>7, <1>8 DEF Buffer!Next

\* Whatever is written, read and discarded, and in chunks of whatever size, a message is a stack of
\* bytes: what was written last is read first, whole and in its order.
\* (Message::write, read, discard, take_writable_chunk)
THEOREM MessageIsStack ==
  ASSUME NEW B, ChunkSize \in Nat \ {0}, Writes \subseteq Seq(B), Counts \subseteq Nat
  PROVE  Buffer!Spec => Buffer!Refines
<1>1. Buffer!Init => BufferInv(B) /\ Buffer!Stack!Init
  <2> SUFFICES ASSUME Buffer!Init  PROVE BufferInv(B) /\ Buffer!Stack!Init
    OBVIOUS
  <2>1. chunks = <<>> /\ spare = 0 /\ result = [wrote |-> 0]
    BY DEF Buffer!Init
  <2>2. BufferInv(B)
    BY <2>1, EmptySeq DEF BufferInv, FitChunks
  <2>3. <<>> \in Seq(Seq(B)) /\ <<>> \in Seq(B)
    OBVIOUS
  <2>4. BytesOf(<<>>) = <<>>
    BY <2>3, BytesAppend
  <2>5. Buffer!bytes = <<>>
    BY <2>1, <2>4 DEF Buffer!bytes, BytesOf
  <2> QED BY <2>1, <2>2, <2>5 DEF Buffer!Stack!Init
<1>2. BufferInv(B) /\ [Buffer!Next]_(Buffer!vars) => BufferInv(B)' /\ [Buffer!Stack!Next]_(Buffer!Stack!vars)
  <2>1. BufferInv(B) /\ Buffer!Next => BufferInv(B)' /\ Buffer!Stack!Next
    BY BufferStep
  <2>2. UNCHANGED Buffer!vars => UNCHANGED Buffer!Stack!vars /\ (BufferInv(B) => BufferInv(B)')
    BY DEF Buffer!vars, Buffer!Stack!vars, Buffer!bytes, BufferInv, FitChunks
  <2> QED BY <2>1, <2>2
<1> QED BY <1>1, <1>2, PTL DEF Buffer!Spec, Buffer!Refines, Buffer!Stack!Spec
=============================================================================
