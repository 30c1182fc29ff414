---------------------------- MODULE MessageBuffer ---------------------------
(***************************************************************************)
(* cjdns_bytes::Message as it is: a stack of chunks of fixed size, each    *)
(* filled from its end to its start, the last one holding the front of the *)
(* message, and the emptied chunks kept for later writes.                  *)
(***************************************************************************)
EXTENDS Naturals, Sequences, SequencesExt

CONSTANTS ChunkSize, Writes, Counts, MaxLen

VARIABLES chunks, \* what each chunk holds, the front of the message last
          spare,  \* how many emptied chunks are kept
          result

vars == <<chunks, spare, result>>

\* as_vec, iovec: the chunks from the last to the first.
bytes == FlattenSeq(Reverse(chunks))

\* Mutant of TakeWritable: a chunk once written to is not written to again.
TakeNew(m) ==
  [chunk |-> <<>>, chunks |-> m.chunks, spare |-> IF m.spare > 0 THEN m.spare - 1 ELSE 0]

\* The chunk written to next: the last one while it has room, a spare one, or a new one.
TakeWritable(m) ==
  CASE m.chunks # <<>> /\ Len(Last(m.chunks)) < ChunkSize ->
         [chunk |-> Last(m.chunks), chunks |-> Front(m.chunks), spare |-> m.spare]
    [] m.spare > 0 /\ (m.chunks = <<>> \/ Len(Last(m.chunks)) = ChunkSize) ->
         [chunk |-> <<>>, chunks |-> m.chunks, spare |-> m.spare - 1]
    [] OTHER -> [chunk |-> <<>>, chunks |-> m.chunks, spare |-> m.spare]

\* Mutant of Part: a chunk too small for buf takes the front of it.
PartFront(buf, chunk) ==
  LET room == ChunkSize - Len(chunk)
      cut == IF Len(buf) >= room THEN room ELSE Len(buf)
  IN  [pushed |-> SubSeq(buf, 1, cut), left |-> SubSeq(buf, cut + 1, Len(buf))]

\* How much of buf a chunk takes in one turn, from the end of buf.
Part(buf, chunk) ==
  LET room == ChunkSize - Len(chunk)
      cut == IF Len(buf) >= room THEN Len(buf) - room ELSE 0
  IN  [pushed |-> SubSeq(buf, cut + 1, Len(buf)), left |-> SubSeq(buf, 1, cut)]

\* A turn of the loop of write, which goes on while anything is left.
Turn(w) ==
  LET t == TakeWritable(w)
      p == Part(w.left, t.chunk)
  IN  IF w.left = <<>> THEN w
      ELSE [chunks |-> Append(t.chunks, p.pushed \o t.chunk), spare |-> t.spare, left |-> p.left]

Written(m, buf) ==
  LET turn[n \in 0..Len(buf)] ==
        IF n = 0 THEN [chunks |-> m.chunks, spare |-> m.spare, left |-> buf] ELSE Turn(turn[n - 1])
  IN  turn[Len(buf)]

\* Bytes leave from the last chunk; one that is emptied becomes a spare one.
Pop(r) ==
  LET top == Last(r.chunks) IN
  CASE r.chunks = <<>> \/ r.short = 0 -> r
    [] r.chunks # <<>> /\ r.short >= Len(top) ->
         [chunks |-> Front(r.chunks), spare |-> r.spare + 1, out |-> r.out \o top, short |-> r.short - Len(top)]
    [] OTHER ->
         [chunks |-> Append(Front(r.chunks), SubSeq(top, r.short + 1, Len(top))), spare |-> r.spare,
          out |-> r.out \o SubSeq(top, 1, r.short), short |-> 0]

Taken(m, n) ==
  LET popped[i \in 0..Len(m.chunks)] ==
        IF i = 0 THEN [chunks |-> m.chunks, spare |-> m.spare, out |-> m.out, short |-> n]
        ELSE Pop(popped[i - 1])
  IN  popped[Len(m.chunks)]

-----------------------------------------------------------------------------
Init == chunks = <<>> /\ spare = 0 /\ result = [wrote |-> 0]

Write(b) ==
  LET m == Written([chunks |-> chunks, spare |-> spare], b) IN
  /\ Len(bytes) + Len(b) <= MaxLen
  /\ chunks' = m.chunks /\ spare' = m.spare
  /\ result' = [wrote |-> Len(b)]

Now(n) == Taken([chunks |-> chunks, spare |-> spare, out |-> <<>>], n)

Read(n) ==
  /\ chunks' = Now(n).chunks /\ spare' = Now(n).spare
  /\ result' = [read |-> Now(n).out]

\* discard, and clear, which discards the length of the message.
Discard(n) ==
  /\ chunks' = Now(n).chunks /\ spare' = Now(n).spare
  /\ result' = [ok |-> Now(n).short = 0]

Next ==
  \/ \E b \in Writes : Write(b)
  \/ \E n \in Counts : Read(n) \/ Discard(n)

Spec == Init /\ [][Next]_vars

-----------------------------------------------------------------------------
\* No empty chunk stays on the stack, none holds more than it has room for, and only the last
\* one has room left (Message::chunks, Message::take_writable_chunk).
TypeOK ==
  /\ \A i \in DOMAIN chunks : Len(chunks[i]) \in 1..ChunkSize
  /\ \A i \in 1..(Len(chunks) - 1) : Len(chunks[i]) = ChunkSize
  /\ spare \in Nat /\ Len(bytes) <= MaxLen

\* The chunks are one stack of bytes: whatever the sizes written, read and discarded, and
\* whichever chunks are used again, a reader sees what was written, front first
\* (Message::write, Message::read, Message::discard).
Stack == INSTANCE ByteStack
Refines == Stack!Spec
=============================================================================
