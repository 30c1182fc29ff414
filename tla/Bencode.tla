------------------------------- MODULE Bencode ------------------------------
(***************************************************************************)
(* Bencode as the parser and the serializer of cjdns_bencode::standard     *)
(* have it.  Bytes are their codes.  A parser gives a set: empty for an    *)
(* error, else of the one object read and what is left.                    *)
(***************************************************************************)
EXTENDS Integers, Sequences, SequencesExt

CONSTANTS MaxInt,      \* i64::MAX
          MaxRecursion \* how deep objects may lie in one another

CodeE == 101
CodeI == 105
CodeL == 108
CodeD == 100
Colon == 58
Minus == 45
Zero == 48
IsDigit(c) == c \in Zero..(Zero + 9)

Integer(n) == [int |-> n]
Bytes(b) == [bytes |-> b]
List(l) == [list |-> l]
Dict(f) == [dict |-> f]
Is(o, kind) == kind \in DOMAIN o

-----------------------------------------------------------------------------
\* Mutant of ReadDigits: zeros may lead.
RECURSIVE ReadDigitsLeading(_, _)
ReadDigitsLeading(b, num) ==
  IF b = <<>> THEN {}
  ELSE IF b[1] = CodeE THEN {[n |-> num, left |-> Tail(b)]}
  ELSE LET next == num * 10 + (b[1] - Zero)
       IN  IF ~IsDigit(b[1]) \/ next > MaxInt \/ Len(b) = 1 THEN {}
           ELSE ReadDigitsLeading(Tail(b), next)

\* Digits up to the end marker: none that makes the number too large, no leading zero.
RECURSIVE ReadDigits(_, _)
ReadDigits(b, num) ==
  IF b = <<>> THEN {}
  ELSE IF b[1] = CodeE THEN {[n |-> num, left |-> Tail(b)]}
  ELSE LET next == num * 10 + (b[1] - Zero)
           more == Len(b) > 1 /\ b[2] # CodeE
       IN  IF ~IsDigit(b[1]) \/ next > MaxInt \/ Len(b) = 1 \/ (next = 0 /\ more) THEN {}
           ELSE ReadDigits(Tail(b), next)

ReadInt(b) ==
  LET negative == b # <<>> /\ b[1] = Minus
      digits == IF negative THEN Tail(b) ELSE b
  IN  IF digits = <<>> THEN {}
      ELSE IF digits[1] = CodeE THEN {}
      ELSE { [obj |-> Integer(IF negative THEN -r.n ELSE r.n), left |-> r.left] :
               r \in { x \in ReadDigits(digits, 0) : ~(negative /\ x.n = 0) } }

\* A length, a colon, and so many bytes.  Only where padding is accepted may zeros lead.
RECURSIVE ReadLength(_, _, _)
ReadLength(b, len, pad) ==
  IF b = <<>> THEN {}
  ELSE IF b[1] = Colon THEN {[n |-> len, left |-> Tail(b)]}
  ELSE LET next == len * 10 + (b[1] - Zero) IN
       IF ~IsDigit(b[1]) \/ Len(b) = 1 \/ (next = 0 /\ ~pad /\ b[2] # Colon) THEN {}
       ELSE ReadLength(Tail(b), next, pad)

ReadString(b, pad) ==
  { [obj |-> Bytes(SubSeq(r.left, 1, r.n)), left |-> SubSeq(r.left, r.n + 1, Len(r.left))] :
      r \in { x \in ReadLength(b, 0, pad) : Len(x.left) >= x.n } }

\* A later entry replaces an earlier one of the same key.
WithEntry(f, k, o) == [x \in DOMAIN f \cup {k} |-> IF x = k THEN o ELSE f[x]]

RECURSIVE ReadGeneric(_, _), ReadList(_, _, _), ReadDict(_, _, _, _)

ReadGeneric(b, depth) ==
  IF b = <<>> \/ depth > MaxRecursion THEN {}
  ELSE CASE b[1] = CodeL -> ReadList(Tail(b), depth + 1, <<>>)
         [] b[1] = CodeD -> ReadDict(Tail(b), depth + 1, <<>>, depth = 0)
         [] b[1] = CodeI -> ReadInt(Tail(b))
         [] IsDigit(b[1]) -> ReadString(b, FALSE)
         [] OTHER -> {}

ReadList(b, depth, list) ==
  IF b = <<>> THEN {}
  ELSE IF b[1] = CodeE THEN {[obj |-> List(list), left |-> Tail(b)]}
  ELSE UNION { ReadList(r.left, depth, Append(list, r.obj)) : r \in ReadGeneric(b, depth) }

\* Only the first key of the outermost dictionary may have padding before it.
ReadDict(b, depth, dict, pad) ==
  IF b = <<>> THEN {}
  ELSE IF b[1] = CodeE THEN {[obj |-> Dict(dict), left |-> Tail(b)]}
  ELSE UNION { UNION { ReadDict(r.left, depth, WithEntry(dict, k.obj.bytes, r.obj), FALSE) :
                         r \in ReadGeneric(k.left, depth) } : k \in ReadString(b, pad) }

Parse(b) == ReadGeneric(b, 0)

-----------------------------------------------------------------------------
RECURSIVE Decimal(_)
Decimal(n) ==
  IF n < 0 THEN <<Minus>> \o Decimal(-n)
  ELSE (IF n < 10 THEN <<>> ELSE Decimal(n \div 10)) \o <<Zero + (n % 10)>>

WriteString(b) == Decimal(Len(b)) \o <<Colon>> \o b

\* The order of a BTreeMap's keys.
RECURSIVE Before(_, _)
Before(a, b) ==
  CASE b = <<>> -> FALSE [] a = <<>> /\ b # <<>> -> TRUE
    [] OTHER -> a[1] < b[1] \/ (a[1] = b[1] /\ Before(Tail(a), Tail(b)))

\* Mutant of Padding: the byte that opens the dictionary is not counted.
PaddingShort(align, len) == IF align > 1 THEN (align - (len % align)) % align ELSE 0

\* How many zeros bring a dictionary whose rest has a length to a multiple of align.
Padding(align, len) == IF align > 1 THEN (align - ((len + 1) % align)) % align ELSE 0

\* Nested values are not aligned.  "after" is how much of the message is written already.
RECURSIVE Serialize(_, _, _)
Serialize(o, align, after) ==
  CASE Is(o, "int") -> <<CodeI>> \o Decimal(o.int) \o <<CodeE>>
    [] Is(o, "bytes") -> WriteString(o.bytes)
    [] Is(o, "list") ->
         <<CodeL>> \o FlattenSeq([i \in DOMAIN o.list |-> Serialize(o.list[i], 0, 0)]) \o <<CodeE>>
    [] Is(o, "dict") ->
         LET keys == SetToSortSeq(DOMAIN o.dict, Before)
             entries == FlattenSeq([i \in DOMAIN keys |->
                                      WriteString(keys[i]) \o Serialize(o.dict[keys[i]], 0, 0)])
             pad == Padding(align, Len(entries) + 1 + after)
         IN  <<CodeD>> \o [i \in 1..pad |-> Zero] \o entries \o <<CodeE>>

-----------------------------------------------------------------------------
Inside(o) ==
  CASE Is(o, "list") -> ToSet(o.list) [] Is(o, "dict") -> { o.dict[k] : k \in DOMAIN o.dict }
    [] OTHER -> {}

RECURSIVE Parts(_)
Parts(o) == {o} \cup UNION { Parts(p) : p \in Inside(o) }

RECURSIVE Depth(_)
Depth(o) ==
  LET in == { Depth(p) : p \in Inside(o) }
  IN  IF in = {} THEN 0 ELSE 1 + CHOOSE n \in in : \A m \in in : m <= n

\* What the parser cannot take of what the serializer writes: the least integer, whose digits
\* alone are too large, and padding with no key to lead.
Unreadable(o, padded) ==
  Integer(-MaxInt - 1) \in Parts(o) \/ (padded /\ o = Dict(<<>>)) \/ Depth(o) > MaxRecursion

\* An object is read as it was written, with what follows it left; aligned, it ends a message
\* whose length is a multiple of the alignment (serialize, Parser::parse, write_dict).
ObjectReturns(o, align, after) ==
  LET b == Serialize(o, align, Len(after))
      padded == Is(o, "dict") /\ Padding(align, Len(Serialize(o, 0, 0)) - 1 + Len(after)) > 0
  IN  /\ Parse(b \o after) = IF Unreadable(o, padded) THEN {} ELSE {[obj |-> o, left |-> after]}
      /\ (Is(o, "dict") /\ align > 1) => (Len(b) + Len(after)) % align = 0

\* Nothing without a dictionary has two encodings: no leading zeros, no negative zero
\* (read_int, read_string_with_byte).
OneEncoding(b) ==
  \A r \in Parse(b) :
    (\A p \in Parts(r.obj) : ~Is(p, "dict")) => Serialize(r.obj, 0, 0) \o r.left = b
=============================================================================
