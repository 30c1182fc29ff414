------------------------------- MODULE Labels -------------------------------
(***************************************************************************)
(* Labels and the schemes they are written in (cjdns-core splice.rs,       *)
(* encoding.rs, routinglabel.rs).  A label is a number: below its highest  *)
(* set bit, the director of the first hop, written in one of the forms of  *)
(* that node's scheme, and above it the rest of the path.  No label is     *)
(* zero, so zero stands for an error.                                      *)
(*                                                                         *)
(* A scheme is a sequence of forms; their numbers count from one.          *)
(***************************************************************************)
EXTENDS Integers, Sequences, Bitwise, SequencesExt, FiniteSetsExt

CONSTANT BitSize \* LabelBits::BIT_SIZE

MaxPayloadBits == BitSize - 4
Self == 1

\* Index of the highest set bit.
HighestSetBit(n) == CHOOSE k \in 0..(BitSize - 1) : 2^k <= n /\ n < 2^(k + 1)
BitLength(n) == IF n = 0 THEN 0 ELSE HighestSetBit(n) + 1

Form(bits, plen, prefix) == [bits |-> bits, plen |-> plen, prefix |-> prefix]
SizeBits(form) == form.bits + form.plen

F4 == <<Form(4, 0, 0)>>
F8 == <<Form(8, 0, 0)>>
V48 == <<Form(4, 1, 1), Form(8, 1, 0)>>
V37 == <<Form(3, 1, 1), Form(7, 1, 0)>>
V358 == <<Form(3, 1, 1), Form(5, 2, 2), Form(8, 2, 0)>>

-----------------------------------------------------------------------------
\* Mutant of Spliced: one bit more than fits is let through.
SplicedLonger(far, near) ==
  IF HighestSetBit(far) + HighestSetBit(near) > MaxPayloadBits
    THEN 0
    ELSE ((far ^^ 1) * 2^HighestSetBit(near)) ^^ near

\* The label of a far path is put above that of a near one.
Spliced(far, near) ==
  IF HighestSetBit(far) + HighestSetBit(near) > MaxPayloadBits - 1
    THEN 0
    ELSE ((far ^^ 1) * 2^HighestSetBit(near)) ^^ near

\* splice: the first hop is the last label.
Splice(labels) ==
  IF Len(labels) < 2 THEN 0
  ELSE FoldLeft(LAMBDA far, near : IF far = 0 THEN 0 ELSE Spliced(far, near), Head(labels), Tail(labels))

\* Mutant of RoutesThrough: any longer label will do.
RoutesThroughLonger(destination, mid) == HighestSetBit(destination) >= HighestSetBit(mid)

RoutesThrough(destination, mid) ==
  LET shift == 2^HighestSetBit(mid) IN
  /\ HighestSetBit(destination) >= HighestSetBit(mid)
  /\ destination % shift = mid % shift

Unsplice(destination, mid) ==
  IF RoutesThrough(destination, mid) THEN destination \div 2^HighestSetBit(mid) ELSE 0

-----------------------------------------------------------------------------
\* get_encoding_form: number of the first form whose prefix the label has, zero if none.
FormNum(label, scheme) ==
  LET hits == { i \in DOMAIN scheme : label % 2^scheme[i].plen = scheme[i].prefix } IN
  IF hits = {} THEN 0 ELSE Min(hits)

Director(label, form) == (label % 2^SizeBits(form)) \div 2^form.plen
DirectorBits(dir) == IF dir = 0 THEN 1 ELSE BitLength(dir)

\* find_shortest_form
ShortestForm(dir, scheme) ==
  LET fits == { i \in DOMAIN scheme : scheme[i].bits >= DirectorBits(dir) } IN
  IF fits = {} THEN 0
  ELSE CHOOSE i \in fits : \A j \in fits :
         scheme[i].bits < scheme[j].bits \/ (scheme[i].bits = scheme[j].bits /\ i <= j)

\* Mutant of LegacyDirector: the first form counts from zero like the others.
LegacyDirectorPlain(dir, from, to) == dir

\* Scheme 358 counts directors of its first form from one.  A director of seven is kept
\* out of it, but the width and prefix of the form have been chosen by then.
LegacyDirector(dir, from, to) ==
  LET into == IF to = 1 /\ dir = 7 THEN 2 ELSE to IN
  dir - (IF from = 1 THEN 1 ELSE 0) + (IF into = 1 THEN 1 ELSE 0)

\* re_encode into the form of a number, or with zero into the canonical form.
ReEncode(label, scheme, number) ==
  LET from == FormNum(label, scheme)
      dir == Director(label, scheme[from])
      to == IF number = 0 THEN ShortestForm(dir, scheme) ELSE number
      dir2 == IF scheme = V358 THEN LegacyDirector(dir, from, to) ELSE dir
      rest == label \div 2^SizeBits(scheme[from]) IN
  IF \/ from = 0 \/ to \notin DOMAIN scheme
     \/ scheme = V358 /\ from = 1 /\ dir = 0
     \/ BitLength(rest) + SizeBits(scheme[to]) > MaxPayloadBits
    THEN 0
    ELSE (((rest * 2^scheme[to].bits) | dir2) * 2^scheme[to].plen) | scheme[to].prefix

IsOneHop(label, scheme) == HighestSetBit(label) = SizeBits(scheme[FormNum(label, scheme)])

\* Mutant of Widened: it is the way back that is made as long as the way on.
WidenedBack(hop) ==
  LET p == FormNum(hop.p, hop.scheme)
      n == FormNum(hop.n, hop.scheme) IN
  IF p = 0 \/ n = 0 THEN 0
  ELSE IF SizeBits(hop.scheme[n]) > SizeBits(hop.scheme[p])
         THEN ReEncode(hop.n, hop.scheme, p) ELSE hop.n

\* The label of a hop in the middle of a path, made as long as the one that leads back.
Widened(hop) ==
  LET p == FormNum(hop.p, hop.scheme)
      n == FormNum(hop.n, hop.scheme) IN
  IF p = 0 \/ n = 0 THEN 0
  ELSE IF SizeBits(hop.scheme[p]) > SizeBits(hop.scheme[n])
         THEN ReEncode(hop.n, hop.scheme, p) ELSE hop.n

\* build_label; a hop [p, n, scheme] has the labels to the hops before and after it.
BuildLabel(hops) ==
  LET mid == SubSeq(hops, 2, Len(hops) - 1)
      path == <<hops[1].n>> \o [i \in DOMAIN mid |-> Widened(mid[i])] IN
  IF \/ Len(hops) < 2
     \/ hops[1].n = 0 \/ hops[1].p # 0 \/ hops[Len(hops)].p = 0 \/ hops[Len(hops)].n # 0
     \/ \E i \in DOMAIN mid : mid[i].p = 0 \/ mid[i].n = 0
     \/ 0 \in Range(path)
    THEN 0
    ELSE IF Len(path) = 1 THEN path[1] ELSE Splice(Reverse(path))

-----------------------------------------------------------------------------
\* The bits of a path, the first hop's first.
Path(label) == [i \in 1..HighestSetBit(label) |-> (label \div 2^(i - 1)) % 2]

\* Splicing joins paths, and fails only where the whole is longer than a label may be.
SpliceJoins(labels) ==
  LET whole == FlattenSeq(Reverse([i \in DOMAIN labels |-> Path(labels[i])])) IN
  IF Len(labels) < 2 \/ Len(whole) >= MaxPayloadBits THEN Splice(labels) = 0
  ELSE Splice(labels) # 0 /\ Path(Splice(labels)) = whole

\* What unsplice yields is spliced back onto the way there, and what was spliced on it
\* is what it yields.
UnspliceUndoes(a, b) ==
  /\ RoutesThrough(a, b) => Spliced(Unsplice(a, b), b) = a
  /\ Spliced(a, b) # 0 => RoutesThrough(Spliced(a, b), b) /\ Unsplice(Spliced(a, b), b) = a

\* The peer a director stands for: the first form of scheme 358 counts from one.
Interface(label, scheme) ==
  LET num == FormNum(label, scheme) IN
  Director(label, scheme[num]) - (IF scheme = V358 /\ num = 1 THEN 1 ELSE 0)

Rest(label, scheme) == label \div 2^SizeBits(scheme[FormNum(label, scheme)])

\* A label that is re-encoded leads to the same peer and from there on as before.  The
\* exception is scheme 358's director of seven, which is put into the first form as if
\* it were going into the second.
SameHop(label, scheme, number) ==
  LET from == FormNum(label, scheme)
      dir == Director(label, scheme[from])
      to == IF number = 0 THEN ShortestForm(dir, scheme) ELSE number
      again == ReEncode(label, scheme, number)
      fits == LET d == Interface(label, scheme) + (IF scheme = V358 /\ to = 1 THEN 1 ELSE 0) IN
              d >= 0 /\ DirectorBits(d) <= scheme[to].bits IN
  (again # 0 /\ fits /\ ~(scheme = V358 /\ to = 1 /\ dir = 7)) =>
    /\ Interface(again, scheme) = Interface(label, scheme)
    /\ Rest(again, scheme) = Rest(label, scheme)
    /\ FormNum(again, scheme) = to
=============================================================================
