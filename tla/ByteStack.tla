------------------------------ MODULE ByteStack -----------------------------
(***************************************************************************)
(* What a cjdns_bytes::Message promises those who write packets back to    *)
(* front: bytes are put before the ones already there and taken from the   *)
(* front, however the memory under them is cut up.                         *)
(***************************************************************************)
EXTENDS Naturals, Sequences

CONSTANTS Writes, \* what may be written at once
          Counts, \* how many bytes may be asked for or discarded at once
          MaxLen  \* bound on the length of a message

VARIABLES bytes, \* the message, front first
          result \* what the last call returned

vars == <<bytes, result>>

Least(a, b) == IF a < b THEN a ELSE b

Init == bytes = <<>> /\ result = [wrote |-> 0]

Write(b) ==
  /\ Len(bytes) + Len(b) <= MaxLen
  /\ bytes' = b \o bytes
  /\ result' = [wrote |-> Len(b)]

\* Asking for more than there is gives what there is.
Read(n) ==
  LET k == Least(n, Len(bytes)) IN
  /\ result' = [read |-> SubSeq(bytes, 1, k)]
  /\ bytes' = SubSeq(bytes, k + 1, Len(bytes))

\* Discarding more than there is discards all of it and is an error.
Discard(n) ==
  /\ result' = [ok |-> n <= Len(bytes)]
  /\ bytes' = SubSeq(bytes, Least(n, Len(bytes)) + 1, Len(bytes))

Next ==
  \/ \E b \in Writes : Write(b)
  \/ \E n \in Counts : Read(n) \/ Discard(n)

Spec == Init /\ [][Next]_vars
=============================================================================
