------------------------------- MODULE Packets ------------------------------
(***************************************************************************)
(* What the sniffer sends to a cjdns node and receives from it: a route    *)
(* header, a data header unless the packet is a control frame, and the     *)
(* content.                                                                *)
(***************************************************************************)
EXTENDS Frames

B == INSTANCE Bencode WITH MaxInt <- 99999999, MaxRecursion <- 32

Cjdht == 256

Empty == [empty |-> TRUE]
Raw(b) == [bytes |-> b]
Benc(dict) == [benc |-> dict]
Control(m) == [ctrl |-> m]
Is(content, kind) == kind \in DOMAIN content

\* Dictionaries are aligned to four bytes.  A content that does not go with the packet's type is
\* left out.
ContentBytes(p) ==
  CASE Is(p.content, "benc") /\ p.type = Cjdht -> {B!Serialize(p.content.benc, 4, 0)}
    [] Is(p.content, "ctrl") /\ p.header.ctrl -> SerializeCtrl(p.content.ctrl)
    [] Is(p.content, "bytes") -> {p.content.bytes}
    [] OTHER -> {<<>>}

\* Sniffer::send writes a data header in every packet.
Encode(p) ==
  UNION { UNION { { r \o d \o c : c \in ContentBytes(p) } :
                    d \in SerializeData([version |-> 1, type |-> p.type]) } : r \in SerializeRoute(p.header) }

\* Mutant of Contents: what is no control frame is given as it came.
ContentsRaw(type, ctrl, b) ==
  CASE b = <<>> -> {Empty}
    [] b # <<>> /\ ctrl -> { Control(m) : m \in ParseCtrl(b) }
    [] OTHER -> {Raw(b)}

Contents(type, ctrl, b) ==
  CASE b = <<>> -> {Empty}
    [] b # <<>> /\ ctrl -> { Control(m) : m \in ParseCtrl(b) }
    [] b # <<>> /\ ~ctrl /\ type = Cjdht ->
         { Benc(r.obj) : r \in { x \in B!Parse(b) : B!Is(x.obj, "dict") } }
    [] OTHER -> {Raw(b)}

Decode(b) ==
  IF Len(b) < 68 THEN {}
  ELSE LET rest == From(b, 69)
           data(h) == IF h.ctrl THEN {[version |-> 0, type |-> Ctrl]}
                      ELSE IF Len(rest) < 4 THEN {} ELSE ParseData(SubSeq(rest, 1, 4))
           body(h) == IF h.ctrl THEN rest ELSE From(rest, 5)
           packets(h, d) == { [header |-> h, type |-> d.type, content |-> c] :
                                c \in Contents(d.type, h.ctrl, body(h)) }
       IN  UNION { UNION { packets(h, d) : d \in data(h) } : h \in ParseRoute(SubSeq(b, 1, 68)) }

-----------------------------------------------------------------------------
\* What is sent is received as it was, whatever its type: dictionaries with their padding, and
\* contents without a form of their own as bytes (Sniffer::send, Sniffer::decode_message).  Of
\* control frames no packet is made that could be read: they would need a data header.
PacketReturns(p) ==
  IF p.header.ctrl THEN p.type = Ctrl => Encode(p) = {}
  ELSE \A b \in Encode(p) : Decode(b) = {[p EXCEPT !.header.switch = Current(@)]}
=============================================================================
