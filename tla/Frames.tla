-------------------------------- MODULE Frames ------------------------------
(***************************************************************************)
(* The headers and control messages of cjdns packets, byte by byte: the    *)
(* switch header, the route header around it, the data header, and the     *)
(* control messages with their checksum.  What may fail gives a set: empty *)
(* for an error, else of the one result.                                   *)
(***************************************************************************)
EXTENDS Naturals, Sequences

Zeros(n) == [i \in 1..n |-> 0]
From(b, i) == SubSeq(b, i, Len(b))
\* Option<T> fields whose None is written as zero bytes.
Some(b) == IF b = Zeros(Len(b)) THEN {} ELSE {b}
OrZeros(opt, n) == IF opt = {} THEN Zeros(n) ELSE CHOOSE b \in opt : TRUE
Bit(p) == IF p THEN 1 ELSE 0

-----------------------------------------------------------------------------
(* Switch header: label 8, congestion and suppress_errors 1, version and   *)
(* shift 1, penalty 2.                                                     *)

ParseSwitch(b) ==
  IF Len(b) # 12 THEN {}
  ELSE { h \in {[label |-> SubSeq(b, 1, 8), congestion |-> b[9] \div 2, suppress |-> b[9] % 2 = 1,
                 version |-> b[10] \div 64, shift |-> b[10] % 64, penalty |-> SubSeq(b, 11, 12)]} :
           h.label # Zeros(8) /\ h.version \in {0, 1} }

\* Version 0 is written as the current version, 1.
SerializeSwitch(h) ==
  IF h.version \notin {0, 1} \/ h.shift > 63 \/ h.congestion > 127 THEN {}
  ELSE { h.label \o <<h.congestion * 2 + Bit(h.suppress), 64 + h.shift>> \o h.penalty }

-----------------------------------------------------------------------------
(* Route header: key 32, switch header 12, version 4, flags 1, padding 3,  *)
(* address 16.                                                             *)

\* CJDNS_IP6::try_from(key): a hash, of which only some lie in FC00::/8.
IpOf(key) == <<252 + (key[1] % 2)>> \o SubSeq(key, 1, 15)

IsIp6(b) == b[1] = 252 \/ b = Zeros(16)

\* Mutant of Consistent: the address is taken as it came, whatever the key.
ConsistentAlone(h) ==
  /\ h.ctrl => h.key = {} /\ h.ip = {}
  /\ ~h.ctrl => h.ip # {}

Consistent(h) ==
  /\ h.ctrl => h.key = {} /\ h.ip = {}
  /\ ~h.ctrl => h.ip # {}
  /\ \A k \in h.key, ip \in h.ip : IpOf(k) = ip

ParseRoute(b) ==
  IF Len(b) # 68 THEN {}
  ELSE { h \in { [key |-> Some(SubSeq(b, 1, 32)), switch |-> s, version |-> SubSeq(b, 45, 48),
                  ctrl |-> (b[49] \div 2) % 2 = 1, incoming |-> b[49] % 2 = 1,
                  ip |-> Some(SubSeq(b, 53, 68))] : s \in ParseSwitch(SubSeq(b, 33, 44)) } :
           (\A ip \in h.ip : IsIp6(ip)) /\ Consistent(h) }

SerializeRoute(h) ==
  IF ~Consistent(h) THEN {}
  ELSE { OrZeros(h.key, 32) \o s \o h.version \o <<2 * Bit(h.ctrl) + Bit(h.incoming)>> \o Zeros(3)
           \o OrZeros(h.ip, 16) : s \in SerializeSwitch(h.switch) }

-----------------------------------------------------------------------------
(* Data header: version and flags 1, padding 1, content type 2.            *)

Codes == {0, 1, 2, 4, 6, 8, 12, 17, 22, 29, 33, 41, 46, 47, 50, 51, 58, 92, 94, 98, 103, 108, 132,
          136, 256, 257}
Ctrl == 65536
Other == 65537

ParseData(b) ==
  IF Len(b) # 4 THEN {}
  ELSE LET code == b[3] * 256 + b[4]
       IN  {[version |-> b[1] \div 16, type |-> IF code \in Codes THEN code ELSE Other]}

SerializeData(h) ==
  IF h.version > 15 \/ h.type > 65535 THEN {}
  ELSE {<<16 * (IF h.version = 0 THEN 1 ELSE h.version), 0, h.type \div 256, h.type % 256>>}

-----------------------------------------------------------------------------
(* The checksum: words are summed as little endian, and the bytes of the   *)
(* sum swapped at the end.                                                 *)

Swapped(w) == (w % 256) * 256 + (w \div 256)

\* Mutant of SumWords: the last byte of an odd length is the upper one of its word.
SumWordsUpper(b) ==
  LET upTo[i \in 0..(Len(b) \div 2)] ==
        IF i = 0 THEN 0 ELSE upTo[i - 1] + b[2 * i - 1] + 256 * b[2 * i]
  IN  upTo[Len(b) \div 2] + IF Len(b) % 2 = 1 THEN 256 * b[Len(b)] ELSE 0

SumWords(b) ==
  LET upTo[i \in 0..(Len(b) \div 2)] ==
        IF i = 0 THEN 0 ELSE upTo[i - 1] + b[2 * i - 1] + 256 * b[2 * i]
  IN  upTo[Len(b) \div 2] + IF Len(b) % 2 = 1 THEN b[Len(b)] ELSE 0

Folded[sum \in Nat] == IF sum > 65535 THEN Folded[(sum \div 65536) + (sum % 65536)] ELSE sum

Cksum(b) == 65535 - Swapped(Folded[SumWords(b)])

-----------------------------------------------------------------------------
(* Control messages: checksum 2, type 2, and what the type has.            *)

Pings == 3..6
KeyPings == {5, 6}
Magic(type) ==
  CASE type = 3 -> <<9, 249, 17, 2>> [] type = 4 -> <<157, 116, 227, 91>>
    [] type = 5 -> <<1, 35, 69, 103>> [] type = 6 -> <<137, 171, 205, 239>>

\* Thirty-two bytes are taken for a key whatever the type, and kept if it has one.
ParsePing(b, type) ==
  LET keyed == Len(b) >= 40 IN
  IF Len(b) < 8 \/ SubSeq(b, 1, 4) # Magic(type) \/ (type \in KeyPings /\ ~keyed) THEN {}
  ELSE {[version |-> SubSeq(b, 5, 8), key |-> IF type \in KeyPings THEN {SubSeq(b, 9, 40)} ELSE {},
         content |-> From(b, IF keyed THEN 41 ELSE 9)]}

\* Mutant of SerializePing: the key is left out.
SerializePingPlain(p, type) ==
  IF p.version = Zeros(4) \/ (type \in KeyPings /\ p.key = {}) THEN {}
  ELSE { Magic(type) \o p.version \o p.content }

SerializePing(p, type) ==
  IF p.version = Zeros(4) \/ (type \in KeyPings /\ p.key = {}) THEN {}
  ELSE { Magic(type) \o p.version \o (IF p.key = {} THEN <<>> ELSE OrZeros(p.key, 32)) \o p.content }

\* Codes above 10 are of errors not known here, and cannot be written again.
Unrecognized == 11

ParseError(b) ==
  IF Len(b) < 16 \/ SubSeq(b, 1, 4) = Zeros(4) THEN {}
  ELSE { [error |-> IF SubSeq(b, 1, 3) = Zeros(3) /\ b[4] <= 10 THEN b[4] ELSE Unrecognized,
          switch |-> s, additional |-> From(b, 17)] : s \in ParseSwitch(SubSeq(b, 5, 16)) }

SerializeError(e) ==
  IF e.error \in {0, Unrecognized} THEN {}
  ELSE { Zeros(3) \o <<e.error>> \o s \o e.additional : s \in SerializeSwitch(e.switch) }

\* Mutant of Accepted: one byte that agrees is enough.
AcceptedHalf(received, computed) == received % 256 \in {computed % 256, computed \div 256}

\* The checksum is taken in either byte order.
Accepted(received, computed) == received \in {computed, Swapped(computed)}

\* Answers about supernodes are recognised and their body is not looked at.
Bodies(type, b) ==
  CASE type = 2 -> ParseError(b) [] type \in Pings -> ParsePing(b, type)
    [] type \in {7, 8} -> {[supernode |-> TRUE]} [] OTHER -> {}

ParseCtrl(b) ==
  IF Len(b) < 4 \/ ~Accepted(b[1] * 256 + b[2], Cksum(From(b, 3))) THEN {}
  ELSE LET type == b[3] * 256 + b[4]
       IN  { [type |-> type, data |-> d] : d \in Bodies(type, From(b, 5)) }

SerializeCtrl(m) ==
  LET body == CASE m.type = 2 -> SerializeError(m.data) [] m.type \in Pings -> SerializePing(m.data, m.type)
                [] OTHER -> {}
      sealed(b) == <<Cksum(b) \div 256, Cksum(b) % 256>> \o b
  IN  { sealed(<<0, m.type>> \o d) : d \in body }

-----------------------------------------------------------------------------
Current(h) == [h EXCEPT !.version = IF @ = 0 THEN 1 ELSE @]

\* A route header comes back from the wire as it was, its switch header in the current
\* version, and the bytes of another key's address are refused (RouteHeader::parse,
\* RouteHeader::serialize).
RouteReturns(h, otherKey) ==
  \A b \in SerializeRoute(h) :
    /\ ParseRoute(b) = {[h EXCEPT !.switch = Current(@)]}
    /\ (h.key # {} /\ h.key # {otherKey}) => ParseRoute(otherKey \o From(b, 33)) = {}

\* What can be read of a control message can be written and is read the same again, but for
\* what has no bytes of its own: unknown errors, supernode queries, and a ping of version 0
\* (CtrlMessage::parse, CtrlMessage::serialize and what they call).
ReadAgain(b) ==
  \A m \in ParseCtrl(b) :
    \/ m.type \in {7, 8} \/ (m.type = 2 /\ m.data.error = Unrecognized)
    \/ m.type \in Pings /\ (m.data.version = Zeros(4) \/ Len(m.data.content) >= 32)
    \/ \E c \in SerializeCtrl(m) :
         ParseCtrl(c) = {IF m.type = 2 THEN [m EXCEPT !.data.switch = Current(@)] ELSE m}

Flipped(b, i, bit) == [b EXCEPT ![i] = IF (@ \div 2^bit) % 2 = 1 THEN @ - 2^bit ELSE @ + 2^bit]

\* One damaged bit is noticed wherever it is, although the checksum is taken in either byte
\* order (CtrlMessage::parse, cksum_raw).
DamageRefused(b) ==
  ParseCtrl(b) # {} => \A i \in DOMAIN b, bit \in 0..7 : ParseCtrl(Flipped(b, i, bit)) = {}

\* The checksum of RFC 1071, of words in network order.
Standard(b) ==
  LET padded == IF Len(b) % 2 = 1 THEN Append(b, 0) ELSE b
      upTo[i \in 0..(Len(padded) \div 2)] ==
        IF i = 0 THEN 0 ELSE upTo[i - 1] + 256 * padded[2 * i - 1] + padded[2 * i]
  IN  65535 - Folded[upTo[Len(padded) \div 2]]

\* Summing little endian words and swapping once is the standard checksum, for buffers of
\* any parity (sum_be_words, finalize_checksum; the note at the head of netchecksum/src/lib.rs
\* warns of long buffers, whose sum exceeds 32 bits).
AsStandard(b) == Cksum(b) = Standard(b)
=============================================================================
