------------------------------ MODULE MCCodecs ------------------------------
(***************************************************************************)
(* Inputs for what is written and read again - names, records, replies,    *)
(* messages, frames, bencode - and its properties over them.  A behaviour  *)
(* is one input; "part" says of what.                                      *)
(***************************************************************************)
EXTENDS Integers, Sequences, FiniteSets, TLC

VARIABLES part, input

Tuples(S, n) == UNION { [1..k -> S] : k \in 0..n }

-----------------------------------------------------------------------------
(* Names within and beside the domains "foo", "sub.foo" and "xfoo" and the *)
(* tld without a domain, asked for with and without a tld behind.          *)

Words == {"pns", "foo", "sub", "www", "seed", "pkt", "x", "srv", "xfoo", "xpns", "a"}
D(seeding) == INSTANCE DomainNames WITH
  Own <- <<"pns", "srv", "x">>,
  LabelEnds <- { <<w, w>> : w \in Words } \cup {<<"xfoo", "foo">>, <<"xpns", "pns">>},
  Servers <- << <<"ns", "srv", "x">>, <<"ns", "a", "x">> >>,
  NsPrefix <- { [key |-> <<"pkt", "x">>, rooted |-> FALSE, label |-> "ns69"],
                [key |-> <<"pkt", "y">>, rooted |-> TRUE, label |-> "ns70"] },
  Seeding <- seeding

Rec(name, type, data) == [name |-> name, type |-> type, data |-> data]
Foo == [name |-> <<"foo">>,
        records |-> << Rec(<<>>, "A", <<"1.2.3.4">>), Rec(<<"www">>, "CNAME", <<"foo", "pkt">>),
                       Rec(<<"www">>, "TXT", <<"hi">>), Rec(<<"sub">>, "NS", <<"ns", "foo", "pkt">>),
                       Rec(<<"sub">>, "NS", <<"ns", "srv", "x">>), Rec(<<>>, "MX", <<"mx", "y">>) >>]
Sub == [name |-> <<"sub", "foo">>, records |-> << Rec(<<>>, "A", <<"5.6.7.8">>) >>]
XFoo == [name |-> <<"xfoo">>,
         records |-> << Rec(<<>>, "NS", <<"ns", "srv", "x">>), Rec(<<>>, "A", <<"9">>) >>]
Bare == [name |-> <<>>, records |-> << Rec(<<>>, "A", <<"0">>) >>]

SubNames == { <<>>, <<"foo">>, <<"www", "foo">>, <<"sub", "foo">>, <<"a", "sub", "foo">>, <<"xfoo">>,
              <<"a", "xfoo">>, <<"a">>, <<"seed", "a">> }
Tails == { <<>>, <<"pkt">>, <<"pkt", "x">>, <<"pkt", "y">>, <<"x">>, <<"pns", "srv", "x">>,
           <<"xpns", "srv", "x">>, <<"pkt", "pkt">>, <<"pkt", "x", "y">> }
Types == {"A", "AAAA", "CNAME", "TXT", "NS", "MX", "SOA", "ANY"}

DnsQueries ==
  [doms : SUBSET {Foo, Sub, XFoo, Bare}, sub : SubNames, tail : Tails, t : Types,
   seeding : {"none", "fails", "peers"}]
DomainLabels == Tuples({"a", "0", "-", "A"}, 5) \cup { [i \in 1..n |-> "a"] : n \in 63..64 }

-----------------------------------------------------------------------------
(* Replies of up to two peers, and numbers and records on both sides of    *)
(* every length that changes their form; a byte has 16 values.             *)

S == INSTANCE DnsSeed WITH
  Base <- 16, AddrLen <- [t \in {2, 3} |-> t - 1], PortLen <- 1, KeyLen <- 1, PassLen <- 1,
  IdLen <- 4, Chunk <- 3

SeedPeer(t, login, version) ==
  [t |-> t, addr |-> [i \in 1..(t - 1) |-> i], port |-> <<9>>, login |-> login, password |-> <<2>>,
   key |-> <<1>>, version |-> version]
SeedPeers == { SeedPeer(t, l, v) : t \in {2, 3}, l \in {0, 12, 13, 255}, v \in {12, 255, 256, 65535} }
Replies ==
  [peers : { <<>> } \cup { <<p>> : p \in SeedPeers } \cup { <<p, SeedPeer(2, 13, 1)>> : p \in SeedPeers },
   snode : { {}, {<<7>>} }, id : { {} } \cup { {[i \in 1..n |-> 4]} : n \in {0, 4, 5} }, unknown : { <<>> }]
Numbers == {0, 11, 12, 13, 14, 15, 16, 17, 254, 255, 256, 257, 65534, 65535, 65536, 65537, 16777216}
RecordLists == Tuples({ [i \in 1..n |-> i] : n \in {0, 1, 3, 4, 6, 7} }, 3)

-----------------------------------------------------------------------------
(* A message of every type, with empty and other hashes and values.        *)

G == INSTANCE GossipCodec

Hashes == { <<>>, <<1>>, <<2, 3>> }
GossipArgs ==
  ({"PING", "ACK"} \X {0}) \cup ({"HELLO", "OLLEH"} \X {0, 2}) \cup ({"GET_DATA", "DATA"} \X Hashes)
    \cup ({"INV"} \X Tuples(Hashes, 2))
GossipMessages == { [id |-> n, data |-> [type |-> a[1], arg |-> a[2]]] : n \in {0, 5}, a \in GossipArgs }

-----------------------------------------------------------------------------
(* Frames: headers with every field present, absent and out of range,      *)
(* control messages with a content around the length of a key, and every   *)
(* short buffer of telling bytes.                                          *)

F == INSTANCE Packets

Key(k) == [i \in 1..32 |-> IF i = 1 THEN 2 * k ELSE i]
OddKey == [i \in 1..32 |-> 1]
Label64(n) == F!Zeros(7) \o <<n>>
Version(n) == F!Zeros(3) \o <<n>>
SwitchHeaders ==
  [label : {Label64(19)}, congestion : {0, 5, 127, 128}, suppress : BOOLEAN, version : 0..2,
   shift : {0, 63, 64}, penalty : { <<0, 9>> }]
ASwitch == [label |-> Label64(19), congestion |-> 9, suppress |-> TRUE, version |-> 0, shift |-> 8,
            penalty |-> <<1, 2>>]
RouteHeader(k, ip, v, ctrl, s) ==
  [key |-> k, ip |-> ip, version |-> Version(v), ctrl |-> ctrl, incoming |-> TRUE, switch |-> s]
RouteHeaders ==
  { RouteHeader(k, ip, 22, c, ASwitch) :
      k \in { {}, {Key(1)}, {Key(2)}, {OddKey} }, ip \in { {}, {F!IpOf(Key(1))}, {F!IpOf(Key(2))} },
      c \in BOOLEAN }
    \cup { RouteHeader({Key(1)}, {F!IpOf(Key(1))}, 0, FALSE, s) : s \in SwitchHeaders }

Content(n) == [i \in 1..n |-> (i * 37) % 256]
PingData == [version : {Version(0), Version(22)}, key : { {}, {Key(1)} },
             content : { <<>>, <<1>>, <<255, 0>>, Content(31), Content(32), Content(33) }]
ErrorData == [error : 0..11, switch : {ASwitch, [ASwitch EXCEPT !.version = 1]},
              additional : { <<>>, <<7>>, Content(5) }]
Sealed(c) == <<F!Cksum(c) \div 256, F!Cksum(c) % 256>> \o c
CtrlBytes ==
  UNION { F!SerializeCtrl([type |-> t, data |-> d]) : t \in F!Pings, d \in PingData }
    \cup UNION { F!SerializeCtrl([type |-> 2, data |-> d]) : d \in ErrorData }
    \cup { Sealed(<<0, t>> \o b) :
             t \in 0..9, b \in { <<>>, <<1>>, Version(12) \o Label64(19) \o <<8, 64, 0, 0>> } }
    \cup { LET r == Sealed(<<0, 3>> \o F!Magic(3) \o <<0, 0, 0, 9, 5>>)
           IN  <<r[2], r[1]>> \o F!From(r, 3) }
Buffers == Tuples({0, 1, 128, 255}, 5)

BencodeDicts ==
  UNION { [keys -> {F!B!Integer(7), F!B!Bytes(<<48>>)}] :
            keys \in SUBSET { <<>>, <<97>>, <<97, 48>> } \ { {} } }
Packet(header, type, content) == [header |-> header, type |-> type, content |-> content]
DataHeader == RouteHeader({Key(1)}, {F!IpOf(Key(1))}, 0, FALSE, ASwitch)
PacketCases ==
  { Packet(DataHeader, t, c) : t \in {0, 257}, c \in {F!Empty, F!Raw(<<1>>), F!Raw(<<0, 1>>)} }
    \cup { Packet(DataHeader, F!Cjdht, F!Benc(F!B!Dict(f))) : f \in BencodeDicts }
    \cup { Packet(DataHeader, F!Cjdht, F!Empty), Packet(DataHeader, F!Other, F!Raw(<<1>>)),
           Packet(RouteHeader({}, {}, 0, TRUE, ASwitch), F!Ctrl,
                  F!Control([type |-> 3, data |-> [version |-> Version(1), key |-> {}, content |-> <<1>>]])) }

-----------------------------------------------------------------------------
(* Objects up to one level deeper than the parser takes, with the extreme  *)
(* integers, and every short text of the characters bencode is made of.    *)

B == INSTANCE Bencode WITH MaxInt <- 127, MaxRecursion <- 2

Scalars == { B!Integer(n) : n \in {0, 1, -1, 10, 100, 127, -127, -128} }
             \cup { B!Bytes(b) : b \in { <<>>, <<101>>, [i \in 1..10 |-> 48] } }
Flat == { B!List(l) : l \in Tuples({B!Integer(0), B!Integer(-128), B!Bytes(<<101>>)}, 2) }
          \cup { B!Dict(f) : f \in UNION { [s -> {B!Integer(7), B!Bytes(<<48>>)}] :
                                             s \in SUBSET { <<>>, <<97>>, <<97, 48>>, <<100>> } } }
Nested == { B!List(<<o, B!Integer(1)>>) : o \in Flat }
            \cup { B!Dict((<<98>> :> o) @@ (<<>> :> B!Integer(3))) : o \in Flat }
Deep == { B!List(<<o>>) : o \in Nested } \cup { B!List(<<B!List(<<o>>)>>) : o \in Nested }
Texts == Tuples({48, 49, 101, 105, 108, 45, 58, 100}, 5)

-----------------------------------------------------------------------------
CodecInit ==
  \/ part = "dns" /\ input \in DnsQueries
  \/ part = "label" /\ input \in DomainLabels
  \/ part = "reply" /\ input \in Replies
  \/ part = "number" /\ input \in Numbers
  \/ part = "records" /\ input \in RecordLists
  \/ part = "message" /\ input \in GossipMessages
  \/ part = "route" /\ input \in RouteHeaders
  \/ part = "ctrl" /\ input \in CtrlBytes
  \/ part = "buffer" /\ input \in Buffers
  \/ part = "packet" /\ input \in PacketCases
  \/ part = "object" /\ input \in Scalars \cup Flat \cup Nested \cup Deep
  \/ part = "text" /\ input \in Texts

\* Answers to queries: from the domain of the name, and no other.  (get_records, handle_request)
FromItsDomain ==
  part = "dns" => D(input.seeding)!FromItsDomain(input.doms, input.sub \o input.tail, input.t)

\* An alias or what it is an alias of, never both.  (get_records)
AliasAlone ==
  part = "dns" => D(input.seeding)!AliasAlone(input.doms, input.sub \o input.tail, input.t)

\* The same records in every tld.  (parse_name, fix_pkt_names)
SameInEveryTld ==
  part = "dns" => D(input.seeding)!SameInEveryTld(input.doms, input.sub, "x", input.t)

\* Valid labels are runs of plain characters with single hyphens between.  (is_valid_domain_label)
ValidIsRuns == part = "label" => D("none")!ValidIsRuns(input)

\* Numbers come back where they fit.  (write_var_int, read_var_int)
NumberReturns == part = "number" => \A width \in {1, 2, 4} : S!NumberReturns(input, width)

\* Replies come back, and nothing that was not in them.  (CjdnsTxtRecord, parse_tlv)
ReplyReturns == part = "reply" => S!ReplyReturns(input)

\* The records of a domain come back, in pieces or whole.  (encode_records, decode_records)
RecordsReturn == part = "records" => S!RecordsReturn(input)

\* Messages of the gossip come back.  (Message::encode_msgpack, decode_msgpack)
MessageReturns == part = "message" => G!MessageReturns(input)

\* Route headers come back, and another key's address is refused.  (RouteHeader)
RouteReturns == part = "route" => F!RouteReturns(input, Key(2))

\* Control messages that can be read can be written and read again.  (CtrlMessage)
ReadAgain == part = "ctrl" => F!ReadAgain(input)

\* A damaged bit of a control message is noticed.  (CtrlMessage::parse)
DamageRefused == part = "ctrl" => F!DamageRefused(input)

\* The checksum is the standard one.  (cksum_raw)
AsStandard == part = "buffer" => F!AsStandard(input)

\* Packets sent are received as they were.  (Sniffer::send, decode_message)
PacketReturns == part = "packet" => F!PacketReturns(input)

\* Bencoded objects come back, and dictionaries end aligned.  (serialize, Parser::parse)
ObjectReturns ==
  part = "object" => \A align \in {0, 2, 4}, n \in 0..3 : B!ObjectReturns(input, align, Content(n))

\* What was read has one encoding.  (read_int, read_string_with_byte)
OneEncoding == part = "text" => B!OneEncoding(input)

-----------------------------------------------------------------------------
\* The nameserver answers with records of the domain asked for, in whatever tld, and labels that
\* could not be asked for are not registered.  (cjdns-pns lib.rs; nameserver main.rs)
DnsHolds == FromItsDomain /\ AliasAlone /\ SameInEveryTld /\ ValidIsRuns

\* What is kept in TXT records and in the contract comes back.  (var_int.rs, tlv.rs, dnsseed.rs)
RepliesReturn == NumberReturns /\ ReplyReturns /\ RecordsReturn

\* Frames and messages come back, and those that do not fit together are refused.
\* (cjdns-hdr, cjdns-ctrl, cjdns-sniff, message.rs)
FramesReturn == RouteReturns /\ ReadAgain /\ PacketReturns /\ MessageReturns

\* The checksum is the standard one and notices damage.  (netchecksum, CtrlMessage::parse)
ChecksumHolds == DamageRefused /\ AsStandard

\* Bencode has one text for an object and one object for a text.  (standard.rs)
BencodeExact == ObjectReturns /\ OneEncoding
=============================================================================
