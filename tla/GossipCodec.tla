----------------------------- MODULE GossipCodec ----------------------------
(***************************************************************************)
(* The messages supernodes send one another as msgpack values.  A value is *)
(* a record of its kind and content; what may fail gives a set.            *)
(***************************************************************************)
EXTENDS Naturals, Sequences, SequencesExt

Num(n) == [kind |-> "int", v |-> n]
Str(s) == [kind |-> "string", v |-> s]
Bin(b) == [kind |-> "binary", v |-> b]
Arr(a) == [kind |-> "array", v |-> a]
Nil == [kind |-> "nil", v |-> 0]

Args(data) ==
  CASE data.type \in {"PING", "ACK"} -> <<>>
    [] data.type \in {"HELLO", "OLLEH"} -> <<Num(data.arg)>>
    [] data.type = "GET_DATA" -> <<Bin(data.arg)>>
    [] data.type = "DATA" -> <<IF data.arg = <<>> THEN Nil ELSE Bin(data.arg)>>
    [] data.type = "INV" -> <<Num(0), Arr([i \in DOMAIN data.arg |-> Bin(data.arg[i])])>>

AsValue(m) == Arr(<<Num(m.id), Str(m.data.type)>> \o Args(m.data))

\* Mutant of IsHash: the empty hash is one.
IsHashAny(value) == value.kind = "binary"

\* A hash is never empty.
IsHash(value) == value.kind = "binary" /\ value.v # <<>>

Arity == [PING |-> 0, ACK |-> 0, HELLO |-> 1, OLLEH |-> 1, GET_DATA |-> 1, DATA |-> 1, INV |-> 2]

\* The argument of a message of a type, from its values.  The number before the hashes of an
\* INV is not looked at.
FromArgs(type, a) ==
  IF type \notin DOMAIN Arity \/ Len(a) # Arity[type] THEN {}
  ELSE CASE type \in {"PING", "ACK"} -> {0}
         [] type \in {"HELLO", "OLLEH"} -> IF a[1].kind = "int" THEN {a[1].v} ELSE {}
         [] type = "GET_DATA" -> IF IsHash(a[1]) THEN {a[1].v} ELSE {}
         [] type = "DATA" ->
              CASE a[1].kind = "binary" -> {a[1].v} [] a[1].kind = "nil" -> {<<>>} [] OTHER -> {}
         [] type = "INV" ->
              IF a[2].kind = "array" /\ \A i \in DOMAIN a[2].v : IsHash(a[2].v[i])
              THEN {[i \in DOMAIN a[2].v |-> a[2].v[i].v]} ELSE {}

FromValue(value) ==
  IF value.kind = "array" /\ Len(value.v) \in 2..4 /\ value.v[1].kind = "int"
       /\ value.v[2].kind = "string"
  THEN { [id |-> value.v[1].v, data |-> [type |-> value.v[2].v, arg |-> x]] :
           x \in FromArgs(value.v[2].v, SubSeq(value.v, 3, Len(value.v))) }
  ELSE {}

-----------------------------------------------------------------------------
HashesOf(data) ==
  CASE data.type = "INV" -> ToSet(data.arg) [] data.type = "GET_DATA" -> {data.arg} [] OTHER -> {}

\* What one supernode writes another reads as it was, unless it names an empty hash, which
\* is refused; and nothing read can name one (Message::encode_msgpack, decode_msgpack).
MessageReturns(m) ==
  FromValue(AsValue(m)) = IF <<>> \in HashesOf(m.data) THEN {} ELSE {m}
=============================================================================
