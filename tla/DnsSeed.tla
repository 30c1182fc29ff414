------------------------------- MODULE DnsSeed ------------------------------
(***************************************************************************)
(* The reply of a seeder in a TXT record: type-length-value entries whose  *)
(* numbers take as many bytes as they need, written back to front.  A byte *)
(* has Base values, so that small numbers reach every form.                *)
(***************************************************************************)
EXTENDS Integers, Sequences, SequencesExt

CONSTANTS Base,    \* 256
          AddrLen, \* bytes of an address by the kind of peer, 4 and 16
          PortLen, KeyLen, PassLen, \* bytes of a port, a public key and a password: 2, 32, 8
          IdLen,   \* longest peer id, 64
          Chunk    \* bytes of a record's piece, 253

\* A number in k bytes, the upper one first, and back.
Digits(n, k) == [i \in 1..k |-> (n \div Base^(k - i)) % Base]
Number(b) == LET upTo[i \in 0..Len(b)] == IF i = 0 THEN 0 ELSE upTo[i - 1] * Base + b[i] IN upTo[Len(b)]

\* Mutant of WriteVarInt: the first marker is taken for a number.
WriteVarIntOver(n) ==
  CASE n >= Base^4 -> <<Base - 1>> \o Digits(n, 8)
    [] n < Base^4 /\ n >= Base^2 -> <<Base - 2>> \o Digits(n, 4)
    [] n < Base^2 /\ n > Base - 3 -> <<Base - 3>> \o Digits(n, 2)
    [] OTHER -> <<n>>

WriteVarInt(n) ==
  CASE n >= Base^4 -> <<Base - 1>> \o Digits(n, 8)
    [] n < Base^4 /\ n >= Base^2 -> <<Base - 2>> \o Digits(n, 4)
    [] n < Base^2 /\ n > Base - 4 -> <<Base - 3>> \o Digits(n, 2)
    [] OTHER -> <<n>>

\* A number that fits in width bytes and how many bytes it took, or nothing.
ReadVarInt(b, width) ==
  LET more == CASE b[1] = Base - 1 -> 8 [] b[1] = Base - 2 -> 4 [] b[1] = Base - 3 -> 2 [] OTHER -> 0
      n == IF more = 0 THEN b[1] ELSE Number(SubSeq(b, 2, 1 + more))
  IN  IF b = <<>> THEN {}
      ELSE IF Len(b) <= more THEN {}
      ELSE { r \in {[n |-> n, left |-> SubSeq(b, 2 + more, Len(b))]} : r.n < Base^width }

-----------------------------------------------------------------------------
\* A length counts the type and itself.
EncodeTlv(items) ==
  FlattenSeq([i \in DOMAIN items |-> <<items[i].t, (Len(items[i].v) + 2) % Base>> \o items[i].v])

\* A last byte on its own is left out.
RECURSIVE ParseTlv(_)
ParseTlv(b) ==
  IF Len(b) < 2 THEN {<<>>}
  ELSE IF b[2] < 2 \/ b[2] > Len(b) THEN {}
  ELSE { <<[t |-> b[1], v |-> SubSeq(b, 3, b[2])]>> \o rest :
           rest \in ParseTlv(SubSeq(b, b[2] + 1, Len(b))) }

-----------------------------------------------------------------------------
(* Records of a domain: those too long for an entry go in pieces.          *)

Piece == 6
PieceEnd == 7
Whole == 5

Pieces(r) == [i \in 1..((Len(r) + Chunk - 1) \div Chunk) |->
                [t |-> Piece, v |-> SubSeq(r, (i - 1) * Chunk + 1, IF i * Chunk < Len(r) THEN i * Chunk ELSE Len(r))]]

EncodeRecords(records) ==
  EncodeTlv(FlattenSeq([i \in DOMAIN records |->
    IF Len(records[i]) > Chunk THEN Append(Pieces(records[i]), [t |-> PieceEnd, v |-> <<>>])
    ELSE <<[t |-> Whole, v |-> records[i]]>>]))

\* Mutant of Taken: the pieces of a record stay when it ends.
TakenKept(s, item) ==
  CASE item.t = PieceEnd -> [s EXCEPT !.out = Append(@, s.long)]
    [] item.t = Piece -> [s EXCEPT !.long = @ \o item.v]
    [] item.t = Whole -> [s EXCEPT !.out = Append(@, item.v)]
    [] OTHER -> s

Taken(s, item) ==
  CASE item.t = PieceEnd -> [out |-> Append(s.out, s.long), long |-> <<>>]
    [] item.t = Piece -> [s EXCEPT !.long = @ \o item.v]
    [] item.t = Whole -> [s EXCEPT !.out = Append(@, item.v)]
    [] OTHER -> s

DecodeRecords(b) ==
  { FoldLeft(Taken, [out |-> <<>>, long |-> <<>>], items).out : items \in ParseTlv(b) }

-----------------------------------------------------------------------------
(* CjdnsPeer: address, port, login, password, key, version.                *)

Snode == 1
Udp4 == 2
Udp6 == 3
PeerId == 4

PeerBytes(p) ==
  p.addr \o p.port \o WriteVarInt(p.login) \o p.password \o p.key \o WriteVarInt(p.version)

DecodePeer(t, b) ==
  LET head == AddrLen[t] + PortLen
      fixed == PassLen + KeyLen
      peer(l, v) == [t |-> t, addr |-> SubSeq(b, 1, AddrLen[t]), port |-> SubSeq(b, AddrLen[t] + 1, head),
                     login |-> l.n, password |-> SubSeq(l.left, 1, PassLen),
                     key |-> SubSeq(l.left, PassLen + 1, fixed), version |-> v.n]
      logins == { l \in ReadVarInt(SubSeq(b, head + 1, Len(b)), 2) : Len(l.left) >= fixed }
  IN  UNION { { peer(l, v) : v \in ReadVarInt(SubSeq(l.left, fixed + 1, Len(l.left)), 4) } : l \in logins }

Item(t, v) == EncodeTlv(<<[t |-> t, v |-> v]>>)

\* Mutant of PeersBytes: the first peer is written first.
PeersBytesForward(peers) == FoldLeft(LAMBDA data, p : Item(p.t, PeerBytes(p)) \o data, <<>>, peers)

\* The message is written back to front: the last peer first, the peer id last.
PeersBytes(peers) == FoldLeft(LAMBDA data, p : Item(p.t, PeerBytes(p)) \o data, <<>>, Reverse(peers))

EncodeTxt(r) ==
  LET snode == { Item(Snode, k) : k \in r.snode }
      id == { Item(PeerId, k) : k \in r.id }
      before(opt, data) == IF opt = {} THEN data ELSE (CHOOSE b \in opt : TRUE) \o data
  IN  IF \E k \in r.id : Len(k) > IdLen THEN {} ELSE {before(id, before(snode, PeersBytes(r.peers)))}

\* What an entry adds to the record; a later key or id replaces an earlier one.
FromTlv(r, item) ==
  CASE item.t = PeerId -> {[r EXCEPT !.id = {item.v}]}
    [] item.t = Snode ->
         IF Len(item.v) < KeyLen THEN {} ELSE {[r EXCEPT !.snode = {SubSeq(item.v, 1, KeyLen)}]}
    [] item.t \in {Udp4, Udp6} -> { [r EXCEPT !.peers = Append(@, p)] : p \in DecodePeer(item.t, item.v) }
    [] OTHER -> {[r EXCEPT !.unknown = Append(@, item)]}

NoRecord == [peers |-> <<>>, snode |-> {}, id |-> {}, unknown |-> <<>>]

DecodeTxt(b) ==
  LET with(records, item) == UNION { FromTlv(r, item) : r \in records }
  IN  UNION { FoldLeft(with, {NoRecord}, items) : items \in ParseTlv(b) }

-----------------------------------------------------------------------------
\* A number comes back if it fits where it is read, and is refused if it does not, in the
\* shortest form there is and with what follows it untouched (write_var_int, read_var_int).
NumberReturns(n, width) ==
  ReadVarInt(WriteVarInt(n) \o <<0>>, width) = IF n < Base^width THEN {[n |-> n, left |-> <<0>>]} ELSE {}

\* A seeder's reply is read as it was meant, and one that is cut off anywhere never names a
\* peer, a key or an id that was not in it (CjdnsTxtRecord::encode_bin, decode_bin, parse_tlv).
ReplyReturns(r) ==
  \A b \in EncodeTxt(r) :
    /\ DecodeTxt(b) = {r}
    /\ \A k \in 0..Len(b) : \A d \in DecodeTxt(SubSeq(b, 1, k)) :
         /\ IsPrefix(d.peers, r.peers) /\ d.snode \subseteq r.snode /\ d.id \subseteq r.id
         /\ d.unknown = <<>>

\* The records of a domain come back in order, those that need several pieces too
\* (encode_records, decode_records).
RecordsReturn(records) == DecodeRecords(EncodeRecords(records)) = {records}
=============================================================================
