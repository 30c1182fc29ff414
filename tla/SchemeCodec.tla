----------------------------- MODULE SchemeCodec ----------------------------
(***************************************************************************)
(* Validation of encoding schemes and their form on the wire (cjdns-core   *)
(* encoding.rs).  A bit string is a sequence of bits, the lowest bit of    *)
(* the first byte first: what the reader calls the end of the buffer.      *)
(***************************************************************************)
EXTENDS Labels

MaxForms == 31
FormMaxBitSize == 59
FieldBits == 5

\* EncodingSchemeForm::try_new
IsForm(form) == form.bits \in 1..31 /\ form.prefix <= 2^form.plen - 1

\* EncodingScheme::validate
Valid(scheme) ==
  /\ Len(scheme) \in 1..MaxForms
  /\ \/ Len(scheme) = 1 /\ scheme[1].plen = 0 /\ scheme[1].prefix = 0
     \/ /\ Len(scheme) > 1
        /\ \A i \in DOMAIN scheme :
             /\ scheme[i].plen \in 1..31 /\ SizeBits(scheme[i]) <= FormMaxBitSize
             /\ \A j \in 1..(i - 1) :
                  scheme[j].bits <= scheme[i].bits /\ scheme[j].prefix # scheme[i].prefix

BitsOf(n, count) == [i \in 1..count |-> (n \div 2^(i - 1)) % 2]
NumberOf(bits) == FoldLeft(LAMBDA acc, b : 2 * acc + b, 0, Reverse(bits))

\* Two results that are no schemes: an error, and a panic.
BadData == <<>>
Panic == <<Form(0, 0, 0)>>

\* serialize_scheme: the forms one after the other, and zeros up to a whole byte.
Serialize(scheme) ==
  LET field(f) == BitsOf(f.plen, FieldBits) \o BitsOf(f.bits, FieldBits) \o BitsOf(f.prefix, f.plen)
      bits == FlattenSeq([i \in DOMAIN scheme |-> field(scheme[i])]) IN
  bits \o [i \in 1..((8 - (Len(bits) % 8)) % 8) |-> 0]

\* Mutant of Enough: what is left is read while there is any.
EnoughAny(bits) == bits # <<>>

\* Whether there is room for another form.
Enough(bits) == Len(bits) >= 2 * FieldBits

\* The loop of deserialize_scheme over the bits that are left: positions are unsigned and
\* reads beyond the buffer, like forms that are none, end in a panic.
RECURSIVE ReadForms(_, _)
ReadForms(bits, forms) ==
  LET plen == NumberOf(SubSeq(bits, 1, FieldBits))
      form == Form(NumberOf(SubSeq(bits, FieldBits + 1, 2 * FieldBits)), plen,
                   NumberOf(SubSeq(bits, 2 * FieldBits + 1, 2 * FieldBits + plen)))
      left == SubSeq(bits, 2 * FieldBits + plen + 1, Len(bits)) IN
  IF Len(bits) < 2 * FieldBits + plen \/ ~IsForm(form) THEN Panic
  ELSE IF Enough(left) THEN ReadForms(left, Append(forms, form))
  ELSE Append(forms, form)

Deserialize(bits) ==
  IF Len(bits) < 16 THEN BadData
  ELSE LET forms == ReadForms(bits, <<>>) IN
       IF forms = Panic \/ Valid(forms) THEN forms ELSE BadData

\* A scheme that validates comes back as it was, whatever zeros fill its last byte; one
\* that does not is refused where it is read.
Returns(scheme) ==
  (\A i \in DOMAIN scheme : IsForm(scheme[i])) =>
    Deserialize(Serialize(scheme)) = IF Valid(scheme) THEN scheme ELSE BadData
=============================================================================
